---------------------------- MODULE Spec2Model ----------------------------
(***************************************************************************)
(* A model of dataclasses_codec: the JSON codec of                         *)
(* src/dataclasses_codec/codecs/json.py (JSONCodec, _encode,               *)
(* _decode_dataclass, _decode_field, snake_to_camel) and the functional    *)
(* API of src/dataclasses_codec/__init__.py.                               *)
(*                                                                         *)
(* Python objects are tagged records: k names the kind and the other       *)
(* fields hold the payload of that kind; Python str values are TLA+        *)
(* strings.  A call's outcome is a record [st, val, exc, msg, log]: it     *)
(* returned val (st = "ok") or raised an exception of kind exc with text   *)
(* msg (st = "raise").  log lists the                                      *)
(* union-member attempts the walk made, in call order.                     *)
(***************************************************************************)
EXTENDS Integers, Sequences, FiniteSets, TLC

VARIABLES
    codec,      \* the JSONCodec instance the calls go to: [to_camel_case]
    args,       \* the arguments the caller holds: obj and flag, or cls, data and flag
    call,       \* the entry point last called, and the text or mapping given to it
    outcome,    \* what that call returned or raised
    heap,       \* the lists and dicts that exist, by identity: heap[a] is object a
    made,       \* the from_dict calls made on the heap so far, with what they returned
    shared,     \* what concurrent calls share: the field descriptors and the arguments
    threads     \* the position and the locals of each concurrent call

vars == <<codec, args, call, outcome, heap, made, shared, threads>>

----------------------------------------------------------------------------
(* Bounds of the model.                                                    *)

\* integers offered as field values are 0..MaxInt (and 42, the tests' value)
MaxInt == 1
\* list values offered as inputs have at most this many elements
MaxListLen == 1
\* identifiers offered to snake_to_camel have at most this many characters
MaxIdentLen == 4
\* a caller makes at most this many from_dict calls in a row
MaxCalls == 2
\* a caller changes the values of decoded instances at most this many times
MaxMutations == 2

----------------------------------------------------------------------------
(* Python str helpers.                                                     *)

Char(s, i) == SubSeq(s, i, i)

LowerLetters == "abcdefghijklmnopqrstuvwxyz"
UpperLetters == "ABCDEFGHIJKLMNOPQRSTUVWXYZ"

\* str.upper() and str.lower() of one character
UpperChar(c) ==
    IF \E i \in 1..26 : Char(LowerLetters, i) = c
    THEN Char(UpperLetters, CHOOSE i \in 1..26 : Char(LowerLetters, i) = c)
    ELSE c

LowerChar(c) ==
    IF \E i \in 1..26 : Char(UpperLetters, i) = c
    THEN Char(LowerLetters, CHOOSE i \in 1..26 : Char(UpperLetters, i) = c)
    ELSE c

RECURSIVE LowerStr(_)
LowerStr(s) ==
    IF Len(s) = 0 THEN ""
    ELSE LowerChar(Char(s, 1)) \o LowerStr(SubSeq(s, 2, Len(s)))

\* str.capitalize(): first character upper-cased, the rest lower-cased
Capitalize(s) ==
    IF Len(s) = 0 THEN ""
    ELSE UpperChar(Char(s, 1)) \o LowerStr(SubSeq(s, 2, Len(s)))

HasChar(s, c) == \E i \in 1..Len(s) : Char(s, i) = c

\* s.split(sep) for a one-character separator: the sequence of segments
RECURSIVE Split(_, _)
Split(s, sep) ==
    IF ~HasChar(s, sep) THEN <<s>>
    ELSE LET i == CHOOSE j \in 1..Len(s) :
                    /\ Char(s, j) = sep
                    /\ \A h \in 1..(j - 1) : Char(s, h) # sep
         IN  <<SubSeq(s, 1, i - 1)>> \o Split(SubSeq(s, i + 1, Len(s)), sep)

\* ''.join(words)
RECURSIVE Join(_)
Join(words) ==
    IF Len(words) = 0 THEN "" ELSE Head(words) \o Join(Tail(words))

\* sub in s
Contains(s, sub) ==
    \E i \in 1..(Len(s) - Len(sub) + 1) : SubSeq(s, i, i + Len(sub) - 1) = sub


\* snake_to_camel (json.py:136-138)
snake_to_camel(s) ==
    LET words == Split(s, "_")
    IN  Join([i \in 1..Len(words) |->
                 IF i > 1 THEN Capitalize(words[i]) ELSE words[i]])

----------------------------------------------------------------------------
(* Python objects.                                                         *)

None_         == [k |-> "None"]
\* JSON_MISSING = JSONOptional() (json.py:166-173): a singleton object
JSON_MISSING  == [k |-> "JSON_MISSING"]
PyInt(n)      == [k |-> "int", i |-> n]
PyStr(s)      == [k |-> "str", s |-> s]
PyBool(b)     == [k |-> "bool", b |-> b]
PyDate(y, m, d) == [k |-> "date", d |-> <<y, m, d>>]
PyDateTime(y, m, d, hh, mm, ss) == [k |-> "datetime", d |-> <<y, m, d, hh, mm, ss>>]
PyList(items)  == [k |-> "list", items |-> items]
PyTuple(items) == [k |-> "tuple", items |-> items]
\* a dict is its entries <<key, value>> in insertion order, keys distinct
PyDict(entries) == [k |-> "dict", entries |-> entries]
\* a dataclass instance: its class and its field values in field order
Instance(cls, vals) == [k |-> "instance", cls |-> cls, vals |-> vals]
\* a class object (a dataclass or a builtin such as str)
ClassObj(name) == [k |-> "type", name |-> name]

EmptyDict == PyDict(<<>>)

DictKeys(d) == [i \in 1..Len(d.entries) |-> d.entries[i][1]]
DictHas(d, key) == \E i \in 1..Len(d.entries) : d.entries[i][1] = key
DictGet(d, key) == d.entries[CHOOSE i \in 1..Len(d.entries) : d.entries[i][1] = key][2]
\* d[key] = val: an existing key keeps its position
DictSet(d, key, val) ==
    IF DictHas(d, key)
    THEN PyDict([i \in 1..Len(d.entries) |->
                    IF d.entries[i][1] = key THEN <<key, val>> ELSE d.entries[i]])
    ELSE PyDict(Append(d.entries, <<key, val>>))

----------------------------------------------------------------------------
(* Declared field types (typing annotations).                              *)

TScalar(name)  == [t |-> name, cls |-> "", args |-> <<>>]
TStr           == TScalar("str")
TInt           == TScalar("int")
TBool          == TScalar("bool")
TDictAny       == TScalar("Dict")       \* Dict[str, Any]: origin dict
TDate          == TScalar("date")
TDateTime      == TScalar("datetime")
TNoneType      == TScalar("NoneType")
TDataclass(c)  == [t |-> "dataclass", cls |-> c, args |-> <<>>]
TList(a)       == [t |-> "List", cls |-> "", args |-> <<a>>]
TTuple(as)     == [t |-> "Tuple", cls |-> "", args |-> as]
TUnion(as)     == [t |-> "Union", cls |-> "", args |-> as]
TOptional(a)   == TUnion(<<a, TNoneType>>)

----------------------------------------------------------------------------
(* Field descriptors (dataclasses.Field with json_field metadata).         *)

NoDefault       == [kind |-> "MISSING", value |-> None_]
Default(v)      == [kind |-> "value", value |-> v]
\* default_factory=list or default_factory=dict
Factory(name)   == [kind |-> "factory", value |-> PyStr(name)]

\* a plain annotation, or dataclasses.field(...): empty metadata
Field(name, type, default) ==
    [name |-> name, type |-> type, default |-> default,
     metadata |-> [json_name |-> <<>>, json_serializer |-> <<>>,
                   json_deserializer |-> <<>>]]

\* json_field(json_name=, serializer=, deserializer=, **kwargs) (json.py:141-163):
\* an argument that is None (here <<>>) sets no metadata key
json_field(name, type, default, json_name, serializer, deserializer) ==
    [name |-> name, type |-> type, default |-> default,
     metadata |-> [json_name |-> json_name, json_serializer |-> serializer,
                   json_deserializer |-> deserializer]]

\* bool(field_.metadata): the mapping has at least one key
MetadataTruthy(f) ==
    \/ f.metadata.json_name # <<>>
    \/ f.metadata.json_serializer # <<>>
    \/ f.metadata.json_deserializer # <<>>

----------------------------------------------------------------------------
(* The dataclasses the calls are made on: those of the tests, and a few    *)
(* more built from the same field kinds.                                   *)

Opt(x) == <<x>>
Unset  == <<>>

ClassNames ==
    {"SimpleClass", "NestedClass", "ClassWithDefaults", "ClassWithCustomFields",
     "ClassWithSerializers", "ClassWithOptional", "ClassWithList",
     "SnakeCaseClass", "ClassWithMissing", "DateTimeClass", "DateClass",
     "UnionClass", "NoneClass", "FactoryDefaultsClass", "EmptyClass",
     "DefaultsOnlyClass", "LargeNestedClass", "TupleClass",
     "OptionalNestedClass", "DateOrIntClass", "NestedCustomClass",
     "HiddenFieldClass", "DataclassOrIntClass", "ListOrIntClass",
     "NameOnlyClass", "NarrowOrWideClass", "WideOrNarrowClass",
     "NestedSnakeClass", "CamelClashClass"}

\* dataclasses.fields(cls), in declaration order
fields(c) ==
    CASE c = "SimpleClass" ->
           <<Field("name", TStr, NoDefault), Field("age", TInt, NoDefault)>>
      [] c = "NestedClass" ->
           <<Field("person", TDataclass("SimpleClass"), NoDefault),
             Field("active", TBool, NoDefault)>>
      [] c = "ClassWithDefaults" ->
           <<Field("name", TStr, NoDefault),
             Field("age", TInt, Default(PyInt(0))),
             Field("email", TStr, Default(PyStr("")))>>
      [] c = "ClassWithCustomFields" ->
           <<json_field("user_name", TStr, NoDefault, Opt("username"), Unset, Unset),
             json_field("user_age", TInt, NoDefault, Opt("age"), Unset, Unset)>>
      [] c = "ClassWithSerializers" ->
           <<Field("name", TStr, NoDefault),
             json_field("date", TDate, NoDefault, Unset,
                        Opt("isoformat"), Opt("fromisoformat"))>>
      [] c = "DataclassOrIntClass" ->
           <<Field("value", TUnion(<<TDataclass("SimpleClass"), TInt>>), NoDefault)>>
      [] c = "ListOrIntClass" ->
           <<Field("value", TUnion(<<TList(TInt), TInt>>), NoDefault)>>
      [] c = "NameOnlyClass" -> <<Field("name", TStr, NoDefault)>>
      [] c = "NarrowOrWideClass" ->
           <<Field("item", TUnion(<<TDataclass("NameOnlyClass"),
                                    TDataclass("SimpleClass")>>), NoDefault)>>
      [] c = "WideOrNarrowClass" ->
           <<Field("item", TUnion(<<TDataclass("SimpleClass"),
                                    TDataclass("NameOnlyClass")>>), NoDefault)>>
      [] c = "NestedSnakeClass" ->
           <<Field("user_info", TDataclass("SnakeCaseClass"), NoDefault)>>
      [] c = "CamelClashClass" ->
           <<Field("user_name", TStr, NoDefault), Field("userName", TStr, NoDefault)>>
      [] c = "HiddenFieldClass" ->
           <<Field("name", TStr, NoDefault),
             json_field("secret", TStr, NoDefault, Unset, Opt("omit"), Unset)>>
      [] c = "ClassWithOptional" ->
           <<Field("name", TStr, NoDefault),
             Field("age", TOptional(TInt), Default(None_))>>
      [] c = "ClassWithList" ->
           <<Field("name", TStr, NoDefault),
             Field("items", TList(TStr), NoDefault)>>
      [] c = "SnakeCaseClass" ->
           <<Field("user_name", TStr, NoDefault),
             Field("user_age", TInt, NoDefault)>>
      [] c = "ClassWithMissing" ->
           <<Field("name", TStr, NoDefault),
             Field("optional_field", TStr, Default(JSON_MISSING))>>
      [] c = "DateTimeClass" -> <<Field("created_at", TDateTime, NoDefault)>>
      [] c = "DateClass" -> <<Field("birth_date", TDate, NoDefault)>>
      [] c = "UnionClass" ->
           <<Field("value", TUnion(<<TStr, TInt>>), NoDefault)>>
      [] c = "NoneClass" -> <<Field("value", TOptional(TStr), NoDefault)>>
      [] c = "FactoryDefaultsClass" ->
           <<Field("items", TList(TStr), Factory("list")),
             Field("metadata", TDictAny, Factory("dict"))>>
      [] c = "EmptyClass" -> <<>>
      [] c = "DefaultsOnlyClass" ->
           <<Field("name", TStr, Default(PyStr("default"))),
             Field("age", TInt, Default(PyInt(0)))>>
      [] c = "LargeNestedClass" -> <<Field("data", TDictAny, NoDefault)>>
      [] c = "TupleClass" ->
           <<Field("pair", TTuple(<<TStr, TInt>>), NoDefault)>>
      [] c = "OptionalNestedClass" ->
           <<Field("person", TOptional(TDataclass("SimpleClass")), NoDefault)>>
      [] c = "DateOrIntClass" ->
           <<Field("value", TUnion(<<TDate, TInt>>), NoDefault)>>
      [] c = "NestedCustomClass" ->
           <<json_field("user_id", TInt, NoDefault, Opt("user_id"), Unset, Unset),
             Field("custom_fields", TDataclass("ClassWithCustomFields"), NoDefault)>>
      [] OTHER -> <<>>

\* dataclasses.is_dataclass(x): true of a dataclass and of its instances
is_dataclass(x) ==
    \/ x.k = "instance"
    \/ x.k = "type" /\ x.name \in ClassNames

\* the name of the class of a dataclass or of an instance of it
ClassOf(x) == IF x.k = "instance" THEN x.cls ELSE x.name

----------------------------------------------------------------------------
(* Outcomes of a call: a returned value or a raised exception.             *)

Ok(v) == [st |-> "ok", val |-> v, exc |-> "", msg |-> "", log |-> <<>>]
Raise(kind, msg) ==
    [st |-> "raise", val |-> None_, exc |-> kind, msg |-> msg, log |-> <<>>]
\* the outcome r of a step that ran after the steps logged in log
After(log, r) == [r EXCEPT !.log = log \o @]

\* issubclass(kind, ValueError), as `except ValueError` tests it
IsValueError(kind) == kind \in {"ValueError", "JSONDecodeError"}

----------------------------------------------------------------------------
(* repr(), str() and the ISO formats of datetime.                          *)

RECURSIVE JoinSep(_, _)
JoinSep(words, sep) ==
    IF Len(words) = 0 THEN ""
    ELSE IF Len(words) = 1 THEN words[1]
    ELSE words[1] \o sep \o JoinSep(Tail(words), sep)

RECURSIVE EscapeQuote(_)
EscapeQuote(s) ==
    IF Len(s) = 0 THEN ""
    ELSE (IF Char(s, 1) = "'" THEN "\\'" ELSE Char(s, 1))
         \o EscapeQuote(SubSeq(s, 2, Len(s)))

\* repr of a str: single quotes, double quotes when it holds only single ones
ReprStr(s) ==
    IF HasChar(s, "'") /\ ~HasChar(s, "\"") THEN "\"" \o s \o "\""
    ELSE "'" \o EscapeQuote(s) \o "'"

RECURSIVE Pad(_, _)
Pad(s, width) == IF Len(s) >= width THEN s ELSE Pad("0" \o s, width)

\* date.isoformat() and datetime.isoformat() (no microseconds, no tzinfo)
isoformat(d) ==
    LET two(n) == Pad(ToString(n), 2)
        day == Pad(ToString(d.d[1]), 4) \o "-" \o two(d.d[2]) \o "-" \o two(d.d[3])
    IN  IF d.k = "date" THEN day
        ELSE day \o "T" \o two(d.d[4]) \o ":" \o two(d.d[5]) \o ":" \o two(d.d[6])

IsDigit(c) == \E d \in 0..9 : ToString(d) = c
DigitVal(c) == CHOOSE d \in 0..9 : ToString(d) = c
AllDigits(s) == \A i \in 1..Len(s) : IsDigit(Char(s, i))

RECURSIVE StrToNat(_)
StrToNat(s) ==
    IF Len(s) = 0 THEN 0
    ELSE 10 * StrToNat(SubSeq(s, 1, Len(s) - 1)) + DigitVal(Char(s, Len(s)))

DaysIn(y, m) ==
    IF m \in {4, 6, 9, 11} THEN 30
    ELSE IF m = 2
         THEN (IF (y % 4 = 0 /\ y % 100 # 0) \/ y % 400 = 0 THEN 29 ELSE 28)
         ELSE 31

\* the text s is YYYY-MM-DD for a date of the calendar
IsIsoDate(s) ==
    /\ Len(s) = 10
    /\ Char(s, 5) = "-" /\ Char(s, 8) = "-"
    /\ AllDigits(SubSeq(s, 1, 4)) /\ AllDigits(SubSeq(s, 6, 7))
    /\ AllDigits(SubSeq(s, 9, 10))
    /\ StrToNat(SubSeq(s, 1, 4)) >= 1
    /\ StrToNat(SubSeq(s, 6, 7)) \in 1..12
    /\ StrToNat(SubSeq(s, 9, 10)) \in
           1..DaysIn(StrToNat(SubSeq(s, 1, 4)), StrToNat(SubSeq(s, 6, 7)))

\* the text s is HH:MM:SS
IsIsoTime(s) ==
    /\ Len(s) = 8
    /\ Char(s, 3) = ":" /\ Char(s, 6) = ":"
    /\ AllDigits(SubSeq(s, 1, 2)) /\ AllDigits(SubSeq(s, 4, 5))
    /\ AllDigits(SubSeq(s, 7, 8))
    /\ StrToNat(SubSeq(s, 1, 2)) \in 0..23
    /\ StrToNat(SubSeq(s, 4, 5)) \in 0..59
    /\ StrToNat(SubSeq(s, 7, 8)) \in 0..59

RECURSIVE ReprVal(_)
ReprVal(x) ==
    CASE x.k = "None" -> "None"
      [] x.k = "JSON_MISSING" -> "<dataclasses_codec.codecs.json.JSONOptional object>"
      [] x.k = "int" -> ToString(x.i)
      [] x.k = "bool" -> IF x.b THEN "True" ELSE "False"
      [] x.k = "str" -> ReprStr(x.s)
      [] x.k = "date" ->
           "datetime.date(" \o JoinSep([i \in 1..3 |-> ToString(x.d[i])], ", ") \o ")"
      [] x.k = "datetime" ->
           "datetime.datetime("
               \o JoinSep([i \in 1..6 |-> ToString(x.d[i])], ", ") \o ")"
      [] x.k = "list" ->
           "[" \o JoinSep([i \in 1..Len(x.items) |-> ReprVal(x.items[i])], ", ") \o "]"
      [] x.k = "tuple" ->
           "(" \o JoinSep([i \in 1..Len(x.items) |-> ReprVal(x.items[i])], ", ")
               \o (IF Len(x.items) = 1 THEN ",)" ELSE ")")
      [] x.k = "dict" ->
           "{" \o JoinSep([i \in 1..Len(x.entries) |->
                              ReprVal(x.entries[i][1]) \o ": " \o ReprVal(x.entries[i][2])], ", ")
               \o "}"
      [] x.k = "instance" ->
           x.cls \o "("
               \o JoinSep([i \in 1..Len(x.vals) |->
                              fields(x.cls)[i].name \o "=" \o ReprVal(x.vals[i])],
                          ", ")
               \o ")"
      [] x.k = "type" -> "<class '" \o x.name \o "'>"

\* str(x), as an f-string formats {x}
StrVal(x) == IF x.k = "str" THEN x.s ELSE ReprVal(x)

\* type(x).__name__
TypeName(x) ==
    CASE x.k = "None" -> "NoneType"
      [] x.k = "JSON_MISSING" -> "JSONOptional"
      [] x.k = "instance" -> x.cls
      [] x.k = "datetime" -> "datetime.datetime"
      [] x.k = "date" -> "datetime.date"
      [] OTHER -> x.k

\* repr of a declared type; inside a typing generic a class is written by
\* its name (a dataclass without the module that defines it)
RECURSIVE ReprType(_)
RECURSIVE ReprArg(_)
ReprArg(typ) ==
    CASE typ.t = "dataclass" -> typ.cls
      [] typ.t \in {"List", "Tuple", "Union", "Dict"} -> ReprType(typ)
      [] typ.t = "date" -> "datetime.date"
      [] typ.t = "datetime" -> "datetime.datetime"
      [] OTHER -> typ.t

ReprType(typ) ==
    CASE typ.t = "dataclass" -> "<class '" \o typ.cls \o "'>"
      [] typ.t = "List" -> "typing.List[" \o ReprArg(typ.args[1]) \o "]"
      [] typ.t = "Tuple" ->
           "typing.Tuple["
               \o JoinSep([i \in 1..Len(typ.args) |-> ReprArg(typ.args[i])], ", ")
               \o "]"
      [] typ.t = "Union" ->
           IF Len(typ.args) = 2 /\ typ.args[2].t = "NoneType"
           THEN "typing.Optional[" \o ReprArg(typ.args[1]) \o "]"
           ELSE "typing.Union["
                    \o JoinSep([i \in 1..Len(typ.args) |-> ReprArg(typ.args[i])], ", ")
                    \o "]"
      [] typ.t = "Dict" -> "typing.Dict[str, typing.Any]"
      [] typ.t = "date" -> "<class 'datetime.date'>"
      [] typ.t = "datetime" -> "<class 'datetime.datetime'>"
      [] OTHER -> "<class '" \o typ.t \o "'>"

----------------------------------------------------------------------------
(* Library calls the codec makes.                                          *)

\* datetime.date.fromisoformat(val)
date_fromisoformat(val) ==
    IF val.k # "str"
    THEN Raise("TypeError", "fromisoformat: argument must be str")
    ELSE IF IsIsoDate(val.s)
    THEN Ok(PyDate(StrToNat(SubSeq(val.s, 1, 4)), StrToNat(SubSeq(val.s, 6, 7)),
                   StrToNat(SubSeq(val.s, 9, 10))))
    ELSE Raise("ValueError", "Invalid isoformat string: " \o ReprStr(val.s))

\* datetime.datetime.fromisoformat(val): a date, or a date, a separator and a time
datetime_fromisoformat(val) ==
    IF val.k # "str"
    THEN Raise("TypeError", "fromisoformat: argument must be str")
    ELSE IF IsIsoDate(val.s)
    THEN Ok(PyDateTime(StrToNat(SubSeq(val.s, 1, 4)), StrToNat(SubSeq(val.s, 6, 7)),
                       StrToNat(SubSeq(val.s, 9, 10)), 0, 0, 0))
    ELSE IF /\ Len(val.s) = 19
            /\ IsIsoDate(SubSeq(val.s, 1, 10))
            /\ IsIsoTime(SubSeq(val.s, 12, 19))
    THEN Ok(PyDateTime(StrToNat(SubSeq(val.s, 1, 4)), StrToNat(SubSeq(val.s, 6, 7)),
                       StrToNat(SubSeq(val.s, 9, 10)), StrToNat(SubSeq(val.s, 12, 13)),
                       StrToNat(SubSeq(val.s, 15, 16)), StrToNat(SubSeq(val.s, 18, 19))))
    ELSE Raise("ValueError", "Invalid isoformat string: " \o ReprStr(val.s))

\* the serializer and deserializer callables of the dataclasses above:
\* lambda d: d.isoformat() and lambda s: dt.date.fromisoformat(s)
CallCustom(fn, val) ==
    CASE fn = "isoformat" ->
           IF val.k \in {"date", "datetime"} THEN Ok(PyStr(isoformat(val)))
           ELSE Raise("AttributeError",
                      "'" \o TypeName(val) \o "' object has no attribute 'isoformat'")
      [] fn = "fromisoformat" -> date_fromisoformat(val)
      [] fn = "omit" -> Ok(JSON_MISSING)

\* default_factory(): list() or dict()
CallFactory(name) == IF name = "list" THEN PyList(<<>>) ELSE EmptyDict

\* getattr(obj, field.name) for the i-th field: an instance holds a value for
\* every field, a dataclass holds a class attribute for a field with a default
getattr(obj, i) ==
    LET f == fields(ClassOf(obj))[i]
    IN  IF obj.k = "instance" THEN Ok(obj.vals[i])
        ELSE IF f.default.kind = "value" THEN Ok(f.default.value)
        ELSE Raise("AttributeError",
                   "type object '" \o obj.name \o "' has no attribute '" \o f.name \o "'")

----------------------------------------------------------------------------
(* The field naming resolver and the recursive encoder.                    *)

\* the resolver that leaves the identifier as it is under either convention
NameUnconverted(field_obj, field_name, to_camel_case) ==
    IF field_obj.metadata.json_name # <<>> THEN field_obj.metadata.json_name[1]
    ELSE field_name

\* the resolver with the override tested after the convention
NameConventionFirst(field_obj, field_name, to_camel_case) ==
    IF to_camel_case THEN snake_to_camel(field_name)
    ELSE IF MetadataTruthy(field_obj) /\ field_obj.metadata.json_name # <<>>
    THEN field_obj.metadata.json_name[1]
    ELSE field_name

\* _get_json_field_name (json.py:176-189)
_get_json_field_name(field_obj, field_name, to_camel_case) ==
    IF MetadataTruthy(field_obj) /\ field_obj.metadata.json_name # <<>>
    THEN field_obj.metadata.json_name[1]
    ELSE IF to_camel_case THEN snake_to_camel(field_name)
    ELSE field_name

\* a serializer test with no test for None
SerializerAlways(field_, value) ==
    MetadataTruthy(field_) /\ field_.metadata.json_serializer # <<>>

\* the test that sends a value through the field's serializer (json.py:201-205)
SerializerApplies(field_, value) ==
    /\ MetadataTruthy(field_)
    /\ field_.metadata.json_serializer # <<>>
    /\ value # None_

\* a skip test that drops None as well
SkipsNone(value) == value \in {JSON_MISSING, None_}

\* `value is JSON_MISSING` (json.py:197): the field is left out of the result
Skipped(value) == value = JSON_MISSING

RECURSIVE _encode(_, _)
RECURSIVE EncodeFields(_, _, _, _)
RECURSIVE EncodeItems(_, _, _, _)
RECURSIVE EncodeEntries(_, _, _, _)

\* the loop over fields(obj) of _encode (json.py:195-210), from field i on
EncodeFields(obj, i, result, to_camel_case) ==
    IF i > Len(fields(ClassOf(obj))) THEN Ok(result)
    ELSE
      LET field_ == fields(ClassOf(obj))[i]
          got == getattr(obj, i)
      IN  IF got.st = "raise" THEN got
          ELSE IF Skipped(got.val)
          THEN EncodeFields(obj, i + 1, result, to_camel_case)
          ELSE
            LET json_field_name ==
                    _get_json_field_name(field_, field_.name, to_camel_case)
                value ==
                    IF SerializerApplies(field_, got.val)
                    THEN CallCustom(field_.metadata.json_serializer[1], got.val)
                    ELSE got
            IN  IF value.st = "raise" THEN value
                ELSE LET enc == _encode(value.val, to_camel_case)
                     IN  IF enc.st = "raise" THEN enc
                         ELSE EncodeFields(obj, i + 1,
                                  DictSet(result, PyStr(json_field_name), enc.val),
                                  to_camel_case)

\* the list comprehension of _encode (json.py:219-222), from item i on
EncodeItems(items, i, result, to_camel_case) ==
    IF i > Len(items) THEN Ok(PyList(result))
    ELSE LET enc == _encode(items[i], to_camel_case)
         IN  IF enc.st = "raise" THEN enc
             ELSE EncodeItems(items, i + 1, Append(result, enc.val), to_camel_case)

\* the dict comprehension of _encode (json.py:225-230), from entry i on
EncodeEntries(entries, i, result, to_camel_case) ==
    IF i > Len(entries) THEN Ok(result)
    ELSE LET key == entries[i][1]
             newkey == IF to_camel_case /\ key.k = "str"
                       THEN PyStr(snake_to_camel(key.s)) ELSE key
             enc == _encode(entries[i][2], to_camel_case)
         IN  IF enc.st = "raise" THEN enc
             ELSE EncodeEntries(entries, i + 1, DictSet(result, newkey, enc.val),
                                to_camel_case)

\* _encode (json.py:192-232)
_encode(obj, to_camel_case) ==
    IF is_dataclass(obj) THEN EncodeFields(obj, 1, EmptyDict, to_camel_case)
    ELSE IF obj.k \in {"date", "datetime"} THEN Ok(PyStr(isoformat(obj)))
    ELSE IF obj.k \in {"list", "tuple"} THEN EncodeItems(obj.items, 1, <<>>, to_camel_case)
    ELSE IF obj.k = "dict" THEN EncodeEntries(obj.entries, 1, EmptyDict, to_camel_case)
    ELSE Ok(obj)

----------------------------------------------------------------------------
(* The recursive type-directed decoder.                                    *)

\* json_name in raw
KeyIn(raw, json_name) ==
    CASE raw.k = "dict" -> Ok(PyBool(DictHas(raw, PyStr(json_name))))
      [] raw.k \in {"list", "tuple"} ->
           Ok(PyBool(\E i \in 1..Len(raw.items) : raw.items[i] = PyStr(json_name)))
      [] raw.k = "str" -> Ok(PyBool(Contains(raw.s, json_name)))
      [] OTHER ->
           Raise("TypeError",
                 "argument of type '" \o TypeName(raw) \o "' is not iterable")

\* raw[json_name], for a raw that holds json_name
GetItem(raw, json_name) ==
    CASE raw.k = "dict" -> Ok(DictGet(raw, PyStr(json_name)))
      [] raw.k = "str" ->
           Raise("TypeError", "string indices must be integers, not 'str'")
      [] OTHER ->
           Raise("TypeError",
                 TypeName(raw) \o " indices must be integers or slices, not str")

\* iter(val): the items a for loop over val sees
Iterate(val) ==
    CASE val.k \in {"list", "tuple"} -> Ok(PyList(val.items))
      [] val.k = "dict" -> Ok(PyList(DictKeys(val)))
      [] val.k = "str" ->
           Ok(PyList([i \in 1..Len(val.s) |-> PyStr(Char(val.s, i))]))
      [] OTHER ->
           Raise("TypeError", "'" \o TypeName(val) \o "' object is not iterable")

\* cls(**kwargs), kwargs holding one value per field: a class builds an
\* instance, anything else is not callable
Construct(cls, kwargs) ==
    IF cls.k = "type" THEN Ok(Instance(cls.name, kwargs))
    ELSE Raise("TypeError", "'" \o TypeName(cls) \o "' object is not callable")

\* `except ValueError` of the union loop (json.py:311)
UnionCatches(kind) == IsValueError(kind)

\* the absent-key branch naming the attribute in place of the wire key
AbsentKeyNamesField(field_, json_name) ==
    IF field_.default.kind = "value" THEN Ok(field_.default.value)
    ELSE IF field_.default.kind = "factory"
    THEN Ok(CallFactory(field_.default.value.s))
    ELSE Raise("ValueError", "missing field " \o ReprStr(field_.name))

\* the absent-key branch with the default never consulted
AbsentAlwaysMissing(field_, json_name) ==
    Raise("ValueError", "missing field " \o ReprStr(json_name))

\* the branch of _decode_dataclass for a key absent from raw (json.py:248-255)
AbsentKey(field_, json_name) ==
    IF field_.default.kind = "value" THEN Ok(field_.default.value)
    ELSE IF field_.default.kind = "factory"
    THEN Ok(CallFactory(field_.default.value.s))
    ELSE Raise("ValueError", "missing field " \o ReprStr(json_name))

\* a last branch with no test for None
PassThroughNull(typ, val) == Ok(val)

\* a last branch that returns only a value of the declared type
PassThroughTyped(typ, val) ==
    IF val = None_ \/ TypeName(val) # typ.t
    THEN Raise("ValueError",
               "expected type " \o ReprType(typ) \o " got: " \o ReprVal(val))
    ELSE Ok(val)

\* the last branch of _decode_field (json.py:317-319): a value that is not
\* None is returned as it is
PassThrough(typ, val) ==
    IF val = None_
    THEN Raise("ValueError",
               "expected type " \o ReprType(typ) \o " got: None")
    ELSE Ok(val)

RECURSIVE _decode_dataclass(_, _, _)
RECURSIVE _decode_field(_, _, _, _)
RECURSIVE DecodeFields(_, _, _, _, _, _)
RECURSIVE DecodeTuple(_, _, _, _, _, _)
RECURSIVE DecodeList(_, _, _, _, _, _)
RECURSIVE DecodeUnion(_, _, _, _, _)

\* the loop over fields(cls) of _decode_dataclass (json.py:244-266), from
\* field i on, and the construction of the instance that ends it
DecodeFields(cls, raw, i, kwargs, log, to_snake_case) ==
    IF i > Len(fields(ClassOf(cls))) THEN After(log, Construct(cls, kwargs))
    ELSE
      LET field_ == fields(ClassOf(cls))[i]
          json_name == _get_json_field_name(field_, field_.name, to_snake_case)
          present == KeyIn(raw, json_name)
      IN  IF present.st = "raise" THEN After(log, present)
          ELSE IF ~present.val.b
          THEN LET dflt == AbsentKey(field_, json_name)
               IN  IF dflt.st = "raise" THEN After(log, dflt)
                   ELSE DecodeFields(cls, raw, i + 1, Append(kwargs, dflt.val),
                                     log, to_snake_case)
          ELSE
            LET val == GetItem(raw, json_name)
            IN  IF val.st = "raise" THEN After(log, val)
                ELSE IF val.val = None_
                THEN DecodeFields(cls, raw, i + 1, Append(kwargs, None_),
                                  log, to_snake_case)
                ELSE LET dec == _decode_field(field_.type, val.val, to_snake_case,
                                              <<field_>>)
                     IN  IF dec.st = "raise" THEN After(log, dec)
                         ELSE DecodeFields(cls, raw, i + 1, Append(kwargs, dec.val),
                                           log \o dec.log, to_snake_case)

\* _decode_dataclass (json.py:235-266)
_decode_dataclass(cls, raw, to_snake_case) ==
    IF ~is_dataclass(cls)
    THEN Raise("ValueError", "cls is not a dataclass, found: '" \o StrVal(cls) \o "'")
    ELSE DecodeFields(cls, raw, 1, <<>>, <<>>, to_snake_case)

\* the generator of the tuple branch (json.py:288-291), from item i on
DecodeTuple(typ, items, i, result, log, to_snake_case) ==
    IF i > Len(items) THEN After(log, Ok(PyTuple(result)))
    ELSE IF i > Len(typ.args)
    THEN After(log, Raise("IndexError", "tuple index out of range"))
    ELSE LET dec == _decode_field(typ.args[i], items[i], to_snake_case, <<>>)
         IN  IF dec.st = "raise" THEN After(log, dec)
             ELSE DecodeTuple(typ, items, i + 1, Append(result, dec.val),
                              log \o dec.log, to_snake_case)

\* the list comprehension of the list branch (json.py:293-296), from item i on
DecodeList(inner, items, i, result, log, to_snake_case) ==
    IF i > Len(items) THEN After(log, Ok(PyList(result)))
    ELSE LET dec == _decode_field(inner, items[i], to_snake_case, <<>>)
         IN  IF dec.st = "raise" THEN After(log, dec)
             ELSE DecodeList(inner, items, i + 1, Append(result, dec.val),
                             log \o dec.log, to_snake_case)

\* the loop over get_args(typ) of the union branch (json.py:305-316), from
\* member i on; every attempt is logged with its outcome
DecodeUnion(typ, val, i, log, to_snake_case) ==
    IF i > Len(typ.args)
    THEN After(log, Raise("ValueError",
                 "expected '" \o ReprVal(val) \o "' to be of type '" \o ReprType(typ)
                     \o "', got: <class '" \o TypeName(val) \o "'>"))
    ELSE LET dec == _decode_field(typ.args[i], val, to_snake_case, <<>>)
             attempt == [union |-> typ, member |-> i, val |-> val,
                         st |-> dec.st, exc |-> dec.exc]
         IN  IF dec.st = "ok" THEN After(log \o <<attempt>>, dec)
             ELSE IF UnionCatches(dec.exc)
             THEN DecodeUnion(typ, val, i + 1, log \o <<attempt>> \o dec.log,
                              to_snake_case)
             ELSE After(log \o <<attempt>>, dec)

\* _decode_field (json.py:269-319); field_obj is <<>> for None
_decode_field(typ, val, to_snake_case, field_obj) ==
    IF /\ field_obj # <<>>
       /\ MetadataTruthy(field_obj[1])
       /\ field_obj[1].metadata.json_deserializer # <<>>
       /\ val # None_
    THEN CallCustom(field_obj[1].metadata.json_deserializer[1], val)
    ELSE IF typ.t = "dataclass"
    THEN _decode_dataclass(ClassObj(typ.cls), val, to_snake_case)
    ELSE IF typ.t = "Tuple"
    THEN LET it == Iterate(val)
         IN  IF it.st = "raise" THEN it
             ELSE DecodeTuple(typ, it.val.items, 1, <<>>, <<>>, to_snake_case)
    ELSE IF typ.t = "List"
    THEN LET it == Iterate(val)
         IN  IF it.st = "raise" THEN it
             ELSE DecodeList(typ.args[1], it.val.items, 1, <<>>, <<>>, to_snake_case)
    ELSE IF typ.t = "date" THEN date_fromisoformat(val)
    ELSE IF typ.t = "datetime" THEN datetime_fromisoformat(val)
    ELSE IF typ.t = "NoneType"
    THEN (IF val # None_
          THEN Raise("ValueError", "expected None got: " \o ReprVal(val))
          ELSE Ok(val))
    ELSE IF typ.t = "Union" THEN DecodeUnion(typ, val, 1, <<>>, to_snake_case)
    ELSE PassThrough(typ, val)

----------------------------------------------------------------------------
(* json.dumps of a wire tree.                                              *)

RECURSIVE EscapeJson(_)
EscapeJson(s) ==
    IF Len(s) = 0 THEN ""
    ELSE (IF Char(s, 1) \in {"\"", "\\"} THEN "\\" \o Char(s, 1) ELSE Char(s, 1))
         \o EscapeJson(SubSeq(s, 2, Len(s)))

JsonStr(s) == "\"" \o EscapeJson(s) \o "\""

RECURSIVE json_dumps(_)
RECURSIVE DumpItems(_, _, _)
RECURSIVE DumpEntries(_, _, _)

DumpItems(items, i, parts) ==
    IF i > Len(items) THEN Ok(PyStr("[" \o JoinSep(parts, ", ") \o "]"))
    ELSE LET d == json_dumps(items[i])
         IN  IF d.st = "raise" THEN d
             ELSE DumpItems(items, i + 1, Append(parts, d.val.s))

DumpEntries(entries, i, parts) ==
    IF i > Len(entries) THEN Ok(PyStr("{" \o JoinSep(parts, ", ") \o "}"))
    ELSE LET key == entries[i][1]
             d == json_dumps(entries[i][2])
         IN  IF key.k \notin {"str", "int", "bool", "None"}
             THEN Raise("TypeError",
                        "keys must be str, int, float, bool or None, not "
                            \o TypeName(key))
             ELSE IF d.st = "raise" THEN d
             ELSE DumpEntries(entries, i + 1,
                      Append(parts,
                             (IF key.k = "str" THEN JsonStr(key.s)
                              ELSE "\"" \o json_dumps(key).val.s \o "\"")
                                 \o ": " \o d.val.s))

\* json.dumps(obj) with no keyword arguments
json_dumps(obj) ==
    CASE obj.k = "None" -> Ok(PyStr("null"))
      [] obj.k = "bool" -> Ok(PyStr(IF obj.b THEN "true" ELSE "false"))
      [] obj.k = "int" -> Ok(PyStr(ToString(obj.i)))
      [] obj.k = "str" -> Ok(PyStr(JsonStr(obj.s)))
      [] obj.k \in {"list", "tuple"} -> DumpItems(obj.items, 1, <<>>)
      [] obj.k = "dict" -> DumpEntries(obj.entries, 1, <<>>)
      [] OTHER ->
           Raise("TypeError",
                 "Object of type " \o TypeName(obj) \o " is not JSON serializable")

----------------------------------------------------------------------------
(* The arguments the calls are made with.                                  *)

RECURSIVE Product(_)
\* the sequences that take their i-th element from sets[i]
Product(sets) ==
    IF Len(sets) = 0 THEN {<<>>}
    ELSE {<<x>> \o rest : x \in sets[1], rest \in Product(Tail(sets))}

SeqsUpTo(S, n) == UNION {[1..m -> S] : m \in 0..n}

IntValues == {PyInt(n) : n \in 0..MaxInt} \cup {PyInt(42)}

RECURSIVE ValuesOf(_)
RECURSIVE Instances(_)

\* values of a declared type
ValuesOf(typ) ==
    CASE typ.t = "str" -> {PyStr("Alice")}
      [] typ.t = "int" -> IntValues
      [] typ.t = "bool" -> {PyBool(TRUE)}
      [] typ.t = "date" -> {PyDate(2023, 1, 1)}
      [] typ.t = "datetime" -> {PyDateTime(2023, 1, 1, 12, 0, 0)}
      [] typ.t = "NoneType" -> {None_}
      [] typ.t = "Dict" ->
           {EmptyDict, PyDict(<< <<PyStr("user_name"), PyStr("Alice")>> >>),
            PyDict(<< <<PyStr("user_name"), PyStr("Alice")>>,
                      <<PyStr("userName"), PyStr("Bob")>> >>)}
      [] typ.t = "dataclass" -> Instances(typ.cls)
      [] typ.t = "List" ->
           {PyList(items) : items \in SeqsUpTo(ValuesOf(typ.args[1]), MaxListLen)}
      [] typ.t = "Tuple" ->
           {PyTuple(items) :
               items \in Product([i \in 1..Len(typ.args) |-> ValuesOf(typ.args[i])])}
      [] typ.t = "Union" ->
           IF typ = TUnion(<<TStr, TInt>>) THEN {PyStr("test"), PyInt(42)}
           ELSE UNION {ValuesOf(typ.args[i]) : i \in 1..Len(typ.args)}

\* a list, tuple or dict that holds JSON_MISSING, for a field of that type
Holding(typ) ==
    CASE typ.t = "List" -> {PyList(<<JSON_MISSING>>)}
      [] typ.t = "Tuple" ->
           {PyTuple([i \in 1..Len(typ.args) |->
                       IF i = 1 THEN JSON_MISSING
                       ELSE CHOOSE x \in ValuesOf(typ.args[i]) : TRUE])}
      [] typ.t = "Dict" -> {PyDict(<< <<PyStr("key"), JSON_MISSING>> >>)}
      [] OTHER -> {}

\* what a field of an instance may hold: a value of its type, JSON_MISSING,
\* a list, tuple or dict that holds JSON_MISSING, and None where the field has
\* a serializer
FieldValues(f) ==
    ValuesOf(f.type) \cup {JSON_MISSING} \cup Holding(f.type)
        \cup (IF f.metadata.json_serializer # <<>> THEN {None_} ELSE {})

\* the instances of dataclass c
Instances(c) ==
    {Instance(c, vals) :
        vals \in Product([i \in 1..Len(fields(c)) |-> FieldValues(fields(c)[i])])}

AllInstances == UNION {Instances(c) : c \in ClassNames}

\* what is passed as obj that is no dataclass instance
NonInstances ==
    {PyDict(<< <<PyStr("name"), PyStr("Alice")>>, <<PyStr("age"), PyInt(30)>> >>),
     PyList(<<PyDict(<< <<PyStr("name"), PyStr("Alice")>> >>)>>),
     PyStr("Alice"), PyInt(42), None_,
     ClassObj("SimpleClass"), ClassObj("DefaultsOnlyClass"),
     ClassObj("FactoryDefaultsClass"), ClassObj("str")}

EncodeInputs == AllInstances \cup NonInstances

\* identifiers: words over a lower-case letter, an upper-case letter and "_"
Identifiers ==
    {Join(cs) : cs \in UNION {[1..n -> {"a", "B", "_"}] : n \in 1..MaxIdentLen}}

\* the value returned by an _encode that cannot raise
Encoded(x, to_camel_case) == _encode(x, to_camel_case).val

\* wire values offered under the key of field f: encodings of its values in
\* both naming modes, null, and values of another shape
WireMisfits == {None_, PyInt(42), PyStr("test")}

\* one wire element for each member type of a tuple type
Elements(typ) ==
    [i \in 1..Len(typ.args) |->
        CHOOSE w \in {Encoded(x, FALSE) : x \in ValuesOf(typ.args[i])} : TRUE]

\* wire sequences of another length than the tuple type, or holding a null,
\* and for a list type a sequence holding a null and a mapping
Misshapen(typ) ==
    CASE typ.t = "Tuple" ->
           {PyList(<<>>),
            PyList(SubSeq(Elements(typ), 1, Len(typ.args) - 1)),
            PyList(Elements(typ) \o <<PyInt(0)>>),
            PyList(SubSeq(Elements(typ), 1, Len(typ.args) - 1) \o <<None_>>)}
      [] typ.t = "List" ->
           {PyList(<<None_>>), PyDict(<< <<PyStr("a"), PyStr("b")>> >>)}
      [] OTHER -> {}

WireValues(f) ==
    {Encoded(x, c) : x \in ValuesOf(f.type), c \in BOOLEAN}
        \cup WireMisfits \cup Misshapen(f.type)

\* keys a caller may use for field f
WireKeys(f) ==
    {f.name, snake_to_camel(f.name)}
        \cup {f.metadata.json_name[i] : i \in 1..Len(f.metadata.json_name)}

\* per field: no entry, or one entry under one of its keys
FieldEntries(f) ==
    {<<>>} \cup {<< <<PyStr(key), w>> >> : key \in WireKeys(f), w \in WireValues(f)}

RECURSIVE Flatten(_)
Flatten(seqs) == IF Len(seqs) = 0 THEN <<>> ELSE seqs[1] \o Flatten(Tail(seqs))

\* a dict holds one entry for a key
DistinctKeys(entries) ==
    \A i \in 1..Len(entries), j \in 1..Len(entries) :
        entries[i][1] = entries[j][1] => i = j

\* the mappings offered as data for dataclass c
Mappings(c) ==
    {PyDict(Flatten(es)) :
        es \in {es \in Product([i \in 1..Len(fields(c)) |->
                                  FieldEntries(fields(c)[i])]) :
                   DistinctKeys(Flatten(es))}}

\* data that is no mapping
NonMappings ==
    {PyList(<<PyStr("name"), PyStr("age")>>), PyStr("name age"), PyInt(42), None_}

\* (cls, data) pairs offered to the decoding entry points
DecodeInputs ==
    UNION {{<<ClassObj(c), d>> : d \in Mappings(c) \cup NonMappings} : c \in ClassNames}
        \cup {<<ClassObj("str"), PyDict(<< <<PyStr("test"), PyStr("value")>> >>)>>,
              <<Instance("SimpleClass", <<PyStr("Alice"), PyInt(42)>>),
                PyDict(<< <<PyStr("name"), PyStr("Alice")>>,
                          <<PyStr("age"), PyInt(42)>> >>)>>,
              <<PyStr("SimpleClass"), EmptyDict>>}

----------------------------------------------------------------------------
(* json.loads: a parser of JSON documents made of null, true, false,       *)
(* unsigned integers, strings, arrays and objects.  A parse step gives     *)
(* [ok, val, next]: the value read and the position after it.              *)

ParseFail == [ok |-> FALSE, val |-> None_, next |-> 0]
Parsed(v, n) == [ok |-> TRUE, val |-> v, next |-> n]

RECURSIVE SkipWs(_, _)
SkipWs(s, i) ==
    IF i <= Len(s) /\ Char(s, i) = " " THEN SkipWs(s, i + 1) ELSE i

\* the characters of a string literal from position i on, up to its closing quote
RECURSIVE ParseChars(_, _, _)
ParseChars(s, i, acc) ==
    IF i > Len(s) THEN ParseFail
    ELSE IF Char(s, i) = "\"" THEN Parsed(PyStr(acc), i + 1)
    ELSE IF Char(s, i) = "\\"
    THEN (IF i + 1 <= Len(s) /\ Char(s, i + 1) \in {"\"", "\\"}
          THEN ParseChars(s, i + 2, acc \o Char(s, i + 1))
          ELSE ParseFail)
    ELSE ParseChars(s, i + 1, acc \o Char(s, i))

RECURSIVE DigitsEnd(_, _)
DigitsEnd(s, i) ==
    IF i <= Len(s) /\ IsDigit(Char(s, i)) THEN DigitsEnd(s, i + 1) ELSE i

StartsWith(s, i, word) ==
    i + Len(word) - 1 <= Len(s) /\ SubSeq(s, i, i + Len(word) - 1) = word

RECURSIVE ParseValue(_, _)
RECURSIVE ParseArray(_, _, _)
RECURSIVE ParseObject(_, _, _)

\* the items of an array from position i on, after "[" or ","
ParseArray(s, i, items) ==
    LET item == ParseValue(s, SkipWs(s, i))
        j == SkipWs(s, item.next)
    IN  IF ~item.ok \/ j > Len(s) THEN ParseFail
        ELSE IF Char(s, j) = "," THEN ParseArray(s, j + 1, Append(items, item.val))
        ELSE IF Char(s, j) = "]" THEN Parsed(PyList(Append(items, item.val)), j + 1)
        ELSE ParseFail

\* the entries of an object from position i on, after "{" or ","
ParseObject(s, i, obj) ==
    LET k == SkipWs(s, i)
        key == IF k <= Len(s) /\ Char(s, k) = "\"" THEN ParseChars(s, k + 1, "")
               ELSE ParseFail
        c == SkipWs(s, key.next)
        item == IF key.ok /\ c <= Len(s) /\ Char(s, c) = ":"
                THEN ParseValue(s, SkipWs(s, c + 1)) ELSE ParseFail
        j == SkipWs(s, item.next)
    IN  IF ~item.ok \/ j > Len(s) THEN ParseFail
        ELSE IF Char(s, j) = ","
        THEN ParseObject(s, j + 1, DictSet(obj, key.val, item.val))
        ELSE IF Char(s, j) = "}"
        THEN Parsed(DictSet(obj, key.val, item.val), j + 1)
        ELSE ParseFail

\* the JSON value that starts at position i
ParseValue(s, i) ==
    IF i > Len(s) THEN ParseFail
    ELSE IF StartsWith(s, i, "null") THEN Parsed(None_, i + 4)
    ELSE IF StartsWith(s, i, "true") THEN Parsed(PyBool(TRUE), i + 4)
    ELSE IF StartsWith(s, i, "false") THEN Parsed(PyBool(FALSE), i + 5)
    ELSE IF IsDigit(Char(s, i))
    THEN Parsed(PyInt(StrToNat(SubSeq(s, i, DigitsEnd(s, i) - 1))), DigitsEnd(s, i))
    ELSE IF Char(s, i) = "\"" THEN ParseChars(s, i + 1, "")
    ELSE IF Char(s, i) = "["
    THEN (IF SkipWs(s, i + 1) <= Len(s) /\ Char(s, SkipWs(s, i + 1)) = "]"
          THEN Parsed(PyList(<<>>), SkipWs(s, i + 1) + 1)
          ELSE ParseArray(s, i + 1, <<>>))
    ELSE IF Char(s, i) = "{"
    THEN (IF SkipWs(s, i + 1) <= Len(s) /\ Char(s, SkipWs(s, i + 1)) = "}"
          THEN Parsed(EmptyDict, SkipWs(s, i + 1) + 1)
          ELSE ParseObject(s, i + 1, EmptyDict))
    ELSE ParseFail

\* json.loads(s) with no keyword arguments
json_loads(s) ==
    IF s.k # "str"
    THEN Raise("TypeError",
               "the JSON object must be str, bytes or bytearray, not " \o TypeName(s))
    ELSE LET doc == ParseValue(s.s, SkipWs(s.s, 1))
         IN  IF doc.ok /\ SkipWs(s.s, doc.next) > Len(s.s) THEN Ok(doc.val)
             ELSE Raise("JSONDecodeError", "Expecting value: line 1 column 1 (char 0)")

----------------------------------------------------------------------------
(* The entry points of JSONCodec (json.py:24-91).                          *)

\* an `except` clause that lets everything but ValueError through
CatchesValueErrorOnly(kind) == IsValueError(kind)

\* `except Exception`: every exception kind of the model derives from Exception
CatchesException(kind) ==
    kind \in {"ValueError", "TypeError", "IndexError", "AttributeError",
              "JSONDecodeError", "CodecError"}

\* try: r  except Exception as e: raise CodecError(f"{prefix}{e}") from e
Reraise(r, prefix) ==
    IF r.st = "raise" /\ CatchesException(r.exc)
    THEN After(r.log, Raise("CodecError", prefix \o r.msg))
    ELSE r

\* JSONCodec.to_dict (json.py:36-48)
to_dict(self, obj, to_camel_case) ==
    IF ~is_dataclass(obj)
    THEN Raise("CodecError", "obj is not a dataclass, found: '" \o StrVal(obj) \o "'")
    ELSE Reraise(_encode(obj, self.to_camel_case \/ to_camel_case),
                 "Error encoding object: ")

\* JSONCodec.from_dict (json.py:50-63)
from_dict(self, cls, data, to_snake_case) ==
    IF ~is_dataclass(cls)
    THEN Raise("CodecError", "cls is not a dataclass, found: '" \o StrVal(cls) \o "'")
    ELSE Reraise(_decode_dataclass(cls, data, self.to_camel_case \/ to_snake_case),
                 "Error decoding data: ")

\* JSONCodec.to_json (json.py:65-76)
to_json(self, obj, to_camel_case) ==
    LET d == to_dict(self, obj, to_camel_case)
    IN  Reraise(IF d.st = "raise" THEN d ELSE json_dumps(d.val),
                "Error serializing object: ")

\* JSONCodec.from_json (json.py:78-91)
from_json(self, cls, json_str, to_snake_case) ==
    LET data == json_loads(json_str)
    IN  Reraise(IF data.st = "raise" THEN data
                ELSE from_dict(self, cls, data.val, to_snake_case),
                "Error deserializing JSON: ")

\* JSONCodec.encode (json.py:30-31)
encode(self, obj, to_camel_case) == to_json(self, obj, to_camel_case)

\* JSONCodec.decode (json.py:33-34)
decode(self, cls, data, to_snake_case) == from_json(self, cls, data, to_snake_case)

\* JSONCodec.__init__ (json.py:27-28)
JSONCodec(to_camel_case) == [to_camel_case |-> to_camel_case]

\* json_codec = JSONCodec() (json.py:93)
json_codec == JSONCodec(FALSE)

----------------------------------------------------------------------------
(* The state machine: a caller holds a codec and the arguments of one      *)
(* call, makes the call, and may decode what to_dict returned.             *)

EncodeArgs ==
    {[dir |-> "encode", obj |-> x, cls |-> None_, data |-> None_, flag |-> c] :
        x \in EncodeInputs, c \in BOOLEAN}

DecodeArgs ==
    {[dir |-> "decode", obj |-> None_, cls |-> p[1], data |-> p[2], flag |-> c] :
        p \in DecodeInputs, c \in BOOLEAN}

CamelArgs ==
    {[dir |-> "camel", obj |-> PyStr(s), cls |-> None_, data |-> None_,
      flag |-> TRUE] : s \in Identifiers}

NoCall == [op |-> "none", arg |-> None_]
NoOutcome == [st |-> "none", val |-> None_, exc |-> "", msg |-> "", log |-> <<>>]

Init ==
    /\ codec \in {json_codec, JSONCodec(TRUE)}
    /\ args \in EncodeArgs \cup DecodeArgs \cup CamelArgs
    /\ call = NoCall
    /\ outcome = NoOutcome
    /\ heap = <<>>
    /\ made = <<>>
    /\ shared = <<>>
    /\ threads = <<>>

\* codec.to_dict(obj, to_camel_case=flag)
ToDict ==
    /\ call = NoCall /\ args.dir = "encode"
    /\ call' = [op |-> "to_dict", arg |-> None_]
    /\ outcome' = to_dict(codec, args.obj, args.flag)
    /\ UNCHANGED <<codec, args, heap, made, shared, threads>>

\* codec.to_json(obj, to_camel_case=flag)
ToJson ==
    /\ call = NoCall /\ args.dir = "encode"
    /\ call' = [op |-> "to_json", arg |-> None_]
    /\ outcome' = to_json(codec, args.obj, args.flag)
    /\ UNCHANGED <<codec, args, heap, made, shared, threads>>

\* codec.encode(obj, to_camel_case=flag)
Encode ==
    /\ call = NoCall /\ args.dir = "encode"
    /\ call' = [op |-> "encode", arg |-> None_]
    /\ outcome' = encode(codec, args.obj, args.flag)
    /\ UNCHANGED <<codec, args, heap, made, shared, threads>>

\* codec.from_dict(cls, data, to_snake_case=flag)
FromDict ==
    /\ call = NoCall /\ args.dir = "decode"
    /\ call' = [op |-> "from_dict", arg |-> args.data]
    /\ outcome' = from_dict(codec, args.cls, args.data, args.flag)
    /\ UNCHANGED <<codec, args, heap, made, shared, threads>>

\* what a caller passes as json_str: the JSON text of data, or data itself
JsonArgs(data) == {json_dumps(data).val, data}

\* codec.from_json(cls, json_str, to_snake_case=flag)
FromJson ==
    /\ call = NoCall /\ args.dir = "decode"
    /\ \E text \in JsonArgs(args.data) :
          /\ call' = [op |-> "from_json", arg |-> text]
          /\ outcome' = from_json(codec, args.cls, text, args.flag)
    /\ UNCHANGED <<codec, args, heap, made, shared, threads>>

\* codec.decode(cls, data, to_snake_case=flag)
Decode ==
    /\ call = NoCall /\ args.dir = "decode"
    /\ \E text \in JsonArgs(args.data) :
          /\ call' = [op |-> "decode", arg |-> text]
          /\ outcome' = decode(codec, args.cls, text, args.flag)
    /\ UNCHANGED <<codec, args, heap, made, shared, threads>>

\* codec.from_dict(type(obj), d, to_snake_case=flag) on the d that
\* codec.to_dict(obj, to_camel_case=flag) returned
RoundTrip ==
    /\ call.op = "to_dict" /\ outcome.st = "ok" /\ args.obj.k = "instance"
    /\ call' = [op |-> "round_trip", arg |-> outcome.val]
    /\ outcome' = from_dict(codec, ClassObj(args.obj.cls), outcome.val, args.flag)
    /\ UNCHANGED <<codec, args, heap, made, shared, threads>>

\* snake_to_camel(s)
SnakeToCamel ==
    /\ call = NoCall /\ args.dir = "camel"
    /\ call' = [op |-> "snake_to_camel", arg |-> None_]
    /\ outcome' = Ok(PyStr(snake_to_camel(args.obj.s)))
    /\ UNCHANGED <<codec, args, heap, made, shared, threads>>

Next ==
    \/ SnakeToCamel
    \/ ToDict
    \/ ToJson
    \/ Encode
    \/ FromDict
    \/ FromJson
    \/ Decode
    \/ RoundTrip

Spec == Init /\ [][Next]_vars

----------------------------------------------------------------------------
(* Decoding with object identity: lists and dicts live in heap and are     *)
(* held by reference, so that two fields can hold the same object.  A      *)
(* caller makes from_dict calls in a row on FactoryDefaultsClass and       *)
(* changes, between the calls, values of the instances it got back.        *)

Ref(a) == [k |-> "ref", at |-> a]

\* a default_factory() that gives the first list or dict made so far
FactoryObjectShared(h, field_) ==
    LET same == {a \in 1..Len(h) : h[a].k = CallFactory(field_.default.value.s).k}
    IN  IF same # {} THEN CHOOSE a \in same : \A b \in same : a <= b
        ELSE Len(h) + 1

\* the object that default_factory() returns (json.py:252): list() and
\* dict() make a new object at every call
FactoryObject(h, field_) == Len(h) + 1

\* heap h once object a holds v: a new object is added, an object that
\* exists stays as it is
Store(h, a, v) == IF a = Len(h) + 1 THEN Append(h, v) ELSE h

RECURSIVE HeapDecodeFields(_, _, _, _, _, _, _)
\* the loop of _decode_dataclass (json.py:244-266) from field i on, for a
\* class whose fields all have defaults and a mapping raw whose values are
\* null, str or references to lists of str and to dicts: it gives the
\* keyword arguments, the heap, and the fields whose factory it called
HeapDecodeFields(cls, raw, i, kwargs, h, called, to_snake_case) ==
    IF i > Len(fields(cls))
    THEN [kwargs |-> kwargs, heap |-> h, called |-> called]
    ELSE
      LET field_ == fields(cls)[i]
          json_name == _get_json_field_name(field_, field_.name, to_snake_case)
      IN  IF ~DictHas(raw, PyStr(json_name))
          THEN IF field_.default.kind = "value"
               THEN HeapDecodeFields(cls, raw, i + 1,
                        Append(kwargs, field_.default.value), h, called,
                        to_snake_case)
               ELSE LET a == FactoryObject(h, field_)
                    IN  HeapDecodeFields(cls, raw, i + 1, Append(kwargs, Ref(a)),
                            Store(h, a, CallFactory(field_.default.value.s)),
                            Append(called, i), to_snake_case)
          ELSE
            LET val == DictGet(raw, PyStr(json_name))
            IN  IF val = None_
                THEN HeapDecodeFields(cls, raw, i + 1, Append(kwargs, None_), h,
                                      called, to_snake_case)
                ELSE IF field_.type.t = "List"
                \* json.py:292-296: a new list of the elements, each a str
                \* that the last branch returns as it is
                THEN HeapDecodeFields(cls, raw, i + 1,
                         Append(kwargs, Ref(Len(h) + 1)),
                         Append(h, PyList(h[val.at].items)), called, to_snake_case)
                \* json.py:317-319: the value itself
                ELSE HeapDecodeFields(cls, raw, i + 1, Append(kwargs, val), h,
                                      called, to_snake_case)

\* the value a field holds, with the object it refers to read from heap h
Deref(h, v) == IF v.k = "ref" THEN h[v.at] ELSE v

\* the wire value a caller gives under the key of a field: a new list or
\* dict of its own
CallerValue(field_) ==
    IF field_.type.t = "List" THEN PyList(<<PyStr("Alice")>>)
    ELSE PyDict(<< <<PyStr("user_name"), PyStr("Alice")>> >>)

RECURSIVE CallerData(_, _, _, _, _)
\* the mapping a caller builds for class cls with the fields in present,
\* from field i on, and the heap with the caller's objects in it
CallerData(cls, present, i, entries, h) ==
    IF i > Len(fields(cls)) THEN [data |-> PyDict(entries), heap |-> h]
    ELSE IF i \in present
    THEN CallerData(cls, present, i + 1,
             Append(entries, <<PyStr(fields(cls)[i].name), Ref(Len(h) + 1)>>),
             Append(h, CallerValue(fields(cls)[i])))
    ELSE CallerData(cls, present, i + 1, entries, h)

HeapClass == "FactoryDefaultsClass"

FactoryInit ==
    /\ codec = json_codec
    /\ args = [dir |-> "decode", obj |-> None_, cls |-> ClassObj(HeapClass),
               data |-> None_, flag |-> FALSE]
    /\ call = NoCall
    /\ outcome = NoOutcome
    /\ heap = <<>>
    /\ made = <<>>
    /\ shared = <<>>
    /\ threads = <<>>

\* codec.from_dict(cls, data) on a mapping data the caller builds with the
\* keys of the fields in present
FromDictOnHeap(present) ==
    /\ Len(made) < MaxCalls
    /\ LET given == CallerData(HeapClass, present, 1, <<>>, heap)
           r == HeapDecodeFields(HeapClass, given.data, 1, <<>>, given.heap, <<>>,
                                 codec.to_camel_case \/ args.flag)
       IN  /\ heap' = r.heap
           /\ made' = Append(made,
                  [data |-> given.data,
                   inst |-> Instance(HeapClass, r.kwargs),
                   called |-> r.called,
                   fresh |-> [j \in 1..Len(r.kwargs) |-> Deref(r.heap, r.kwargs[j])]])
    /\ UNCHANGED <<codec, args, call, outcome, shared, threads>>

\* the value x the caller adds to a list or a dict
Mark == PyStr("x")

RECURSIVE Marks(_, _)
\* how many times x was added to the objects of heap h from object a on
Marks(h, a) ==
    IF a > Len(h) THEN 0
    ELSE Marks(h, a + 1)
           + (IF h[a].k = "list"
              THEN Cardinality({j \in 1..Len(h[a].items) : h[a].items[j] = Mark})
              ELSE IF DictHas(h[a], Mark) THEN 1 ELSE 0)

\* made[n].inst.<field i>.append(x), or made[n].inst.<field i>[x] = x
MutateMade(n, i) ==
    /\ n \in 1..Len(made) /\ i \in 1..Len(made[n].inst.vals)
    /\ made[n].inst.vals[i].k = "ref"
    /\ Marks(heap, 1) < MaxMutations
    /\ LET a == made[n].inst.vals[i].at
       IN  /\ heap[a].k = "dict" => ~DictHas(heap[a], Mark)
           /\ heap' = [heap EXCEPT ![a] =
                         IF @.k = "list" THEN PyList(Append(@.items, Mark))
                         ELSE DictSet(@, Mark, Mark)]
    /\ UNCHANGED <<codec, args, call, outcome, made, shared, threads>>

FactoryNext ==
    \/ \E present \in SUBSET (1..Len(fields(HeapClass))) : FromDictOnHeap(present)
    \/ \E n \in 1..MaxCalls, i \in 1..Len(fields(HeapClass)) : MutateMade(n, i)

FactorySpec == FactoryInit /\ [][FactoryNext]_vars

----------------------------------------------------------------------------
(* Concurrent calls on one codec and one dataclass.  A call reads the      *)
(* codec's flag when it is entered, then walks the fields one at a time,   *)
(* reading the descriptors of the class and its own argument, and returns. *)
(* Steps of different calls interleave in any order.                       *)

Threads == {"t1", "t2"}

ThreadClass == "SnakeCaseClass"

\* the calls the threads make: to_dict on an instance of the class, or
\* from_dict on a mapping written from one in either naming convention
ThreadArgs ==
    LET objs == {Instance(ThreadClass, <<PyStr("Alice"), PyInt(42)>>),
                 Instance(ThreadClass, <<JSON_MISSING, PyInt(42)>>)}
    IN  {[dir |-> "encode", obj |-> x, cls |-> None_, data |-> None_, flag |-> c] :
            x \in objs, c \in BOOLEAN}
        \cup {[dir |-> "decode", obj |-> None_, cls |-> ClassObj(ThreadClass),
               data |-> Encoded(x, c), flag |-> d] :
                  x \in objs, c \in BOOLEAN, d \in BOOLEAN}

\* the call made alone on codec self
RunAlone(self, a) ==
    IF a.dir = "encode" THEN to_dict(self, a.obj, a.flag)
    ELSE from_dict(self, a.cls, a.data, a.flag)

\* a call that stores the flag it computed in the codec
CodecKeepsFlag(self, flag) == [to_camel_case |-> self.to_camel_case \/ flag]

\* the codec after `self.to_camel_case or flag` was computed (json.py:46, 61):
\* the value is passed on as an argument, self is not assigned
CodecAfterCall(self, flag) == self

\* one turn of the loop of _encode over the fields (json.py:195-209)
EncodeStep(field_, got, result, to_camel_case) ==
    IF Skipped(got) THEN Ok(result)
    ELSE LET json_field_name ==
                 _get_json_field_name(field_, field_.name, to_camel_case)
             value ==
                 IF SerializerApplies(field_, got)
                 THEN CallCustom(field_.metadata.json_serializer[1], got)
                 ELSE Ok(got)
         IN  IF value.st = "raise" THEN value
             ELSE LET enc == _encode(value.val, to_camel_case)
                  IN  IF enc.st = "raise" THEN enc
                      ELSE Ok(DictSet(result, PyStr(json_field_name), enc.val))

\* one turn of the loop of _decode_dataclass over the fields (json.py:245-264)
DecodeStep(field_, raw, kwargs, to_snake_case) ==
    LET json_name == _get_json_field_name(field_, field_.name, to_snake_case)
        present == KeyIn(raw, json_name)
    IN  IF present.st = "raise" THEN present
        ELSE IF ~present.val.b
        THEN LET dflt == AbsentKey(field_, json_name)
             IN  IF dflt.st = "raise" THEN dflt ELSE Ok(Append(kwargs, dflt.val))
        ELSE LET val == GetItem(raw, json_name)
             IN  IF val.st = "raise" THEN val
                 ELSE IF val.val = None_ THEN Ok(Append(kwargs, None_))
                 ELSE LET dec == _decode_field(field_.type, val.val, to_snake_case,
                                               <<field_>>)
                      IN  IF dec.st = "raise" THEN dec
                          ELSE After(dec.log, Ok(Append(kwargs, dec.val)))

ThreadInit ==
    /\ codec \in {json_codec, JSONCodec(TRUE)}
    /\ args = None_
    /\ call = NoCall
    /\ outcome = NoOutcome
    /\ heap = <<>>
    /\ made = <<>>
    /\ \E given \in [Threads -> ThreadArgs] :
          /\ shared = [fields |-> fields(ThreadClass), given |-> given]
          /\ threads = [t \in Threads |->
                          [pc |-> "enter", flag |-> FALSE, i |-> 1,
                           acc |-> IF given[t].dir = "encode" THEN EmptyDict ELSE <<>>,
                           log |-> <<>>, met |-> FALSE,
                           outcome |-> NoOutcome,
                           alone |-> RunAlone(codec, given[t])]]

\* to_dict / from_dict up to the call of _encode / _decode_dataclass
\* (json.py:43-46, 58-61)
Enter(t) ==
    /\ threads[t].pc = "enter"
    /\ threads' = [threads EXCEPT ![t] =
                      [@ EXCEPT !.pc = "walk",
                                !.flag = codec.to_camel_case \/ shared.given[t].flag,
                                !.met = \E u \in Threads \ {t} :
                                            threads[u].pc = "walk"]]
    /\ codec' = CodecAfterCall(codec, shared.given[t].flag)
    /\ UNCHANGED <<args, call, outcome, heap, made, shared>>

\* the call leaves its try block with what was raised
Raised(t, r, prefix) ==
    [threads[t] EXCEPT !.pc = "done",
                       !.outcome = Reraise(After(threads[t].log, r), prefix)]

\* the call after a turn of its loop gave r: on to the next field, or out
Advanced(t, r, prefix) ==
    IF r.st = "raise" THEN Raised(t, r, prefix)
    ELSE [threads[t] EXCEPT !.i = @ + 1, !.acc = r.val, !.log = @ \o r.log]

\* the next field of the instance is encoded
EncodeField(t) ==
    /\ threads[t].pc = "walk" /\ shared.given[t].dir = "encode"
    /\ threads[t].i <= Len(shared.fields)
    /\ threads' = [threads EXCEPT ![t] =
          Advanced(t, EncodeStep(shared.fields[threads[t].i],
                                 shared.given[t].obj.vals[threads[t].i],
                                 threads[t].acc, threads[t].flag),
                   "Error encoding object: ")]
    /\ UNCHANGED <<codec, args, call, outcome, heap, made, shared>>

\* the next field of the class is decoded from the mapping
DecodeField(t) ==
    /\ threads[t].pc = "walk" /\ shared.given[t].dir = "decode"
    /\ threads[t].i <= Len(shared.fields)
    /\ threads' = [threads EXCEPT ![t] =
          Advanced(t, DecodeStep(shared.fields[threads[t].i], shared.given[t].data,
                                 threads[t].acc, threads[t].flag),
                   "Error decoding data: ")]
    /\ UNCHANGED <<codec, args, call, outcome, heap, made, shared>>

\* the loop is over: `return result` (json.py:210), `return cls(**kwargs)`
\* (json.py:266)
Return(t) ==
    /\ threads[t].pc = "walk"
    /\ threads[t].i > Len(shared.fields)
    /\ threads' = [threads EXCEPT ![t] =
          IF shared.given[t].dir = "encode"
          THEN [@ EXCEPT !.pc = "done", !.outcome = Ok(threads[t].acc)]
          ELSE Raised(t, Construct(shared.given[t].cls, threads[t].acc),
                      "Error decoding data: ")]
    /\ UNCHANGED <<codec, args, call, outcome, heap, made, shared>>

ThreadNext ==
    \E t \in Threads : Enter(t) \/ EncodeField(t) \/ DecodeField(t) \/ Return(t)

ThreadSpec == ThreadInit /\ [][ThreadNext]_vars

----------------------------------------------------------------------------
(* Python equality and helpers of the properties.                          *)

RECURSIVE PyEq(_, _)
\* a == b: dicts compare without regard to order, instances field by field
PyEq(a, b) ==
    IF a.k # b.k THEN FALSE
    ELSE IF a.k \in {"list", "tuple"}
    THEN /\ Len(a.items) = Len(b.items)
         /\ \A i \in 1..Len(a.items) : PyEq(a.items[i], b.items[i])
    ELSE IF a.k = "dict"
    THEN /\ Len(a.entries) = Len(b.entries)
         /\ \A i \in 1..Len(a.entries) :
               /\ DictHas(b, a.entries[i][1])
               /\ PyEq(a.entries[i][2], DictGet(b, a.entries[i][1]))
    ELSE IF a.k = "instance"
    THEN /\ a.cls = b.cls
         /\ \A i \in 1..Len(a.vals) : PyEq(a.vals[i], b.vals[i])
    ELSE a = b

RECURSIVE HoldsMissing(_)
\* JSON_MISSING occurs in x, at any depth
HoldsMissing(x) ==
    CASE x.k = "JSON_MISSING" -> TRUE
      [] x.k \in {"list", "tuple"} -> \E i \in 1..Len(x.items) : HoldsMissing(x.items[i])
      [] x.k = "dict" -> \E i \in 1..Len(x.entries) : HoldsMissing(x.entries[i][2])
      [] x.k = "instance" -> \E i \in 1..Len(x.vals) : HoldsMissing(x.vals[i])
      [] OTHER -> FALSE

\* the naming flag of the call: the codec's own or the call's
AskedCamel == codec.to_camel_case \/ args.flag

EncodeOps == {"to_dict", "to_json", "encode"}
DecodeOps == {"from_dict", "from_json", "decode"}
EntryOps == EncodeOps \cup DecodeOps \cup {"round_trip"}

\* the class and the data of a decoding call
TargetCls == IF call.op = "round_trip" THEN ClassObj(args.obj.cls) ELSE args.cls
GivenData == IF call.op = "round_trip" THEN call.arg ELSE args.data

\* x is a dataclass (the class, not an instance of it)
IsDataclassType(x) == x.k = "type" /\ x.name \in ClassNames

\* the call decoded a mapping against a dataclass: from_dict on the mapping,
\* or from_json/decode on its JSON text
MappingDecoded ==
    /\ \/ call.op \in {"from_dict", "round_trip"}
       \/ call.op \in {"from_json", "decode"} /\ call.arg.k = "str"
    /\ IsDataclassType(TargetCls)
    /\ GivenData.k = "dict"

\* the resolved wire key of a field: the json_name override if set, else the
\* camelCase form when the naming flag is on, else the identifier
ResolvedKey(f, camel) ==
    IF f.metadata.json_name # <<>> THEN f.metadata.json_name[1]
    ELSE IF camel THEN snake_to_camel(f.name)
    ELSE f.name

Required(f) == f.default.kind = "MISSING"

\* the declared default of a field that has one
DeclaredDefault(f) ==
    IF f.default.kind = "value" THEN f.default.value
    ELSE IF f.default.value.s = "list" THEN PyList(<<>>) ELSE EmptyDict

\* the indices of the required fields of c whose key mapping m lacks
Lacking(c, m, camel) ==
    {i \in 1..Len(fields(c)) :
        /\ Required(fields(c)[i])
        /\ ~DictHas(m, PyStr(ResolvedKey(fields(c)[i], camel)))}

\* field f of a mapping m is decoded without an error: its key is absent and
\* it has a default, or its value is null, or its value decodes
FieldOk(f, m, camel) ==
    LET key == PyStr(ResolvedKey(f, camel))
    IN  IF ~DictHas(m, key) THEN ~Required(f)
        ELSE IF DictGet(m, key) = None_ THEN TRUE
        ELSE _decode_field(f.type, DictGet(m, key), camel, <<f>>).st = "ok"

Min(S) == CHOOSE x \in S : \A y \in S : x <= y

----------------------------------------------------------------------------
(* C1 *)

\* C1: round trip.  For every dataclass instance r that holds no
\* JSON_MISSING, from_dict(type(r), to_dict(r, to_camel_case=c),
\* to_snake_case=c) returns a value equal to r, for c = False and c = True.
C1_RoundTrip ==
    (call.op = "round_trip" /\ ~HoldsMissing(args.obj))
        => (outcome.st = "ok" /\ PyEq(outcome.val, args.obj))

----------------------------------------------------------------------------
(* C2 *)

\* the outcome of the internal walk of the call: _encode, json.dumps,
\* json.loads or _decode_dataclass raised
WalkRaised ==
    \/ /\ call.op \in EncodeOps /\ is_dataclass(args.obj)
       /\ _encode(args.obj, AskedCamel).st = "raise"
    \/ /\ call.op \in {"to_json", "encode"} /\ is_dataclass(args.obj)
       /\ _encode(args.obj, AskedCamel).st = "ok"
       /\ json_dumps(_encode(args.obj, AskedCamel).val).st = "raise"
    \/ /\ call.op \in {"from_json", "decode"}
       /\ json_loads(call.arg).st = "raise"
    \/ /\ call.op \in {"from_dict", "round_trip"} /\ is_dataclass(TargetCls)
       /\ _decode_dataclass(TargetCls, GivenData, AskedCamel).st = "raise"

\* C2: every failing call of an entry point ends with a CodecError and no
\* return value, whatever the internal walk raised; a call whose
\* internal walk raised never returns.
C2_OnlyCodecError ==
    call.op \in EntryOps =>
        /\ outcome.st \in {"ok", "raise"}
        /\ outcome.st = "raise" => (outcome.exc = "CodecError" /\ outcome.val = None_)
        /\ WalkRaised => outcome.st = "raise"

\* from_dict whose walk raised a TypeError ended with a CodecError
C2_Witness ==
    /\ call.op = "from_dict" /\ is_dataclass(args.cls)
    /\ _decode_dataclass(args.cls, args.data, AskedCamel).exc = "TypeError"
    /\ outcome.exc = "CodecError"

----------------------------------------------------------------------------
(* C3 *)

MissingFieldText(key) == "missing field " \o ReprStr(key)

\* the wire keys of required fields that the mapping lacks, at the top level
\* and inside the mappings given for dataclass-typed fields (also Optional)
NestedClassOf(typ) ==
    IF typ.t = "dataclass" THEN <<typ.cls>>
    ELSE IF typ.t = "Union" /\ typ.args[1].t = "dataclass" THEN <<typ.args[1].cls>>
    ELSE <<>>

LackingKeys(c, m, camel) ==
    {ResolvedKey(fields(c)[i], camel) : i \in Lacking(c, m, camel)}
    \cup UNION {
        LET f == fields(c)[i]
            key == PyStr(ResolvedKey(f, camel))
        IN  IF NestedClassOf(f.type) # <<>> /\ DictHas(m, key)
               /\ DictGet(m, key).k = "dict"
            THEN {ResolvedKey(fields(NestedClassOf(f.type)[1])[j], camel) :
                     j \in Lacking(NestedClassOf(f.type)[1], DictGet(m, key), camel)}
            ELSE {} : i \in 1..Len(fields(c))}

\* C3 as claimed: decoding a mapping that lacks the wire key of a required
\* field, at the top level or in a nested dataclass, fails with a CodecError
\* whose message holds "missing field" and the key of a lacking field.
C3_MissingFieldNamed ==
    (MappingDecoded /\ LackingKeys(TargetCls.name, GivenData, AskedCamel) # {})
        => /\ outcome.st = "raise" /\ outcome.exc = "CodecError"
           /\ \E key \in LackingKeys(TargetCls.name, GivenData, AskedCamel) :
                 Contains(outcome.msg, MissingFieldText(key))

\* C3 amended: a mapping that lacks the key of a required field of the
\* target dataclass fails with a CodecError; when the fields declared before
\* the first such field all decode, the message holds "missing field" and
\* the repr of its resolved key; the same holds for the first lacking field
\* of a nested dataclass given under a dataclass-typed field, when every
\* field before it (outer and nested) decodes.
C3_FirstMissingFieldNamed ==
    MappingDecoded =>
        LET c == TargetCls.name
            m == GivenData
            lack == Lacking(c, m, AskedCamel)
        IN  /\ lack # {} =>
                 /\ outcome.st = "raise" /\ outcome.exc = "CodecError"
                 /\ (\A h \in 1..(Min(lack) - 1) : FieldOk(fields(c)[h], m, AskedCamel))
                       => Contains(outcome.msg,
                              MissingFieldText(ResolvedKey(fields(c)[Min(lack)],
                                                           AskedCamel)))
            /\ \A i \in 1..Len(fields(c)) :
                 LET f == fields(c)[i]
                     key == PyStr(ResolvedKey(f, AskedCamel))
                 IN  (/\ f.type.t = "dataclass"
                      /\ f.metadata.json_deserializer = <<>>
                      /\ DictHas(m, key) /\ DictGet(m, key).k = "dict"
                      /\ Lacking(f.type.cls, DictGet(m, key), AskedCamel) # {}
                      /\ \A h \in 1..(i - 1) : FieldOk(fields(c)[h], m, AskedCamel)
                      /\ \A h \in 1..(Min(Lacking(f.type.cls, DictGet(m, key),
                                                 AskedCamel)) - 1) :
                            FieldOk(fields(f.type.cls)[h], DictGet(m, key), AskedCamel))
                     => /\ outcome.st = "raise" /\ outcome.exc = "CodecError"
                        /\ Contains(outcome.msg,
                               MissingFieldText(ResolvedKey(
                                   fields(f.type.cls)[Min(Lacking(f.type.cls,
                                       DictGet(m, key), AskedCamel))], AskedCamel)))

\* decode(NestedClass, text) of a mapping whose nested person lacks its age
C3_Witness ==
    /\ call.op = "decode" /\ MappingDecoded /\ TargetCls.name = "NestedClass"
    /\ DictHas(GivenData, PyStr("person"))
    /\ DictGet(GivenData, PyStr("person")).k = "dict"
    /\ Lacking("SimpleClass", DictGet(GivenData, PyStr("person")), AskedCamel) = {2}
    /\ Contains(outcome.msg, "missing field 'age'")

----------------------------------------------------------------------------
(* C4 *)

\* C4: to_dict/to_json/encode fail with a CodecError whose message holds
\* "not a dataclass" for every obj that is no dataclass instance, and
\* from_dict/from_json/decode fail so for every cls that is no dataclass
\* type; no such call returns a value.
C4_NotADataclassRejected ==
    /\ (call.op \in EncodeOps /\ args.obj.k # "instance")
          => /\ outcome.st = "raise" /\ outcome.exc = "CodecError"
             /\ Contains(outcome.msg, "not a dataclass")
    /\ (/\ call.op = "from_dict" \/ (call.op \in {"from_json", "decode"}
                                       /\ json_loads(call.arg).st = "ok")
        /\ ~IsDataclassType(args.cls))
          => /\ outcome.st = "raise" /\ outcome.exc = "CodecError"
             /\ Contains(outcome.msg, "not a dataclass")

----------------------------------------------------------------------------
(* C5 *)

RECURSIVE KeysAsClaimed(_, _, _)
\* mapping m holds exactly the resolved keys of the fields of instance x
\* that are not JSON_MISSING, and so does, under its key, the mapping of
\* every nested dataclass instance
KeysAsClaimed(x, m, camel) ==
    /\ m.k = "dict"
    /\ {m.entries[i][1] : i \in 1..Len(m.entries)}
          = {PyStr(ResolvedKey(fields(x.cls)[i], camel)) :
                i \in {j \in 1..Len(x.vals) : x.vals[j] # JSON_MISSING}}
    /\ \A i \in 1..Len(x.vals) :
          (x.vals[i].k = "instance"
             /\ fields(x.cls)[i].metadata.json_serializer = <<>>)
          => KeysAsClaimed(x.vals[i],
                 DictGet(m, PyStr(ResolvedKey(fields(x.cls)[i], camel))), camel)

\* C5: in the mapping to_dict returns for an instance, at the top level and
\* for every nested dataclass, a field holding JSON_MISSING contributes no
\* key and every other field, also one holding None, contributes its
\* resolved wire key.
C5_MissingOmitted ==
    (call.op = "to_dict" /\ args.obj.k = "instance" /\ outcome.st = "ok")
        => KeysAsClaimed(args.obj, outcome.val, AskedCamel)

\* to_dict of a NestedClass whose person holds JSON_MISSING as its age, and
\* of an instance with a field that holds None
C5_Witness ==
    /\ call.op = "to_dict" /\ outcome.st = "ok"
    /\ args.obj.k = "instance" /\ args.obj.cls = "NestedClass"
    /\ args.obj.vals[1].k = "instance"
    /\ args.obj.vals[1].vals[2] = JSON_MISSING
    /\ args.obj.vals[2] # JSON_MISSING

----------------------------------------------------------------------------
(* C6 *)

\* field i of the dataclass has a default and the mapping lacks its key
AbsentWithDefault(c, m, i, camel) ==
    /\ ~Required(fields(c)[i])
    /\ ~DictHas(m, PyStr(ResolvedKey(fields(c)[i], camel)))

\* C6: when the mapping lacks the resolved key of a field that has a
\* default, from_dict sets the field to the default (the fixed value or what
\* default_factory returns) and the absent key makes no call fail: a call
\* that fails has another field that does not decode; so decoding what
\* to_dict wrote for an instance whose field held JSON_MISSING gives the
\* field its declared default.
C6_AbsentKeyTakesDefault ==
    (call.op \in {"from_dict", "round_trip"} /\ MappingDecoded) =>
        LET c == TargetCls.name
            m == GivenData
        IN  \A i \in 1..Len(fields(c)) :
              AbsentWithDefault(c, m, i, AskedCamel) =>
                /\ outcome.st = "ok" =>
                      outcome.val.vals[i] = DeclaredDefault(fields(c)[i])
                /\ outcome.st = "raise" =>
                      \E h \in 1..Len(fields(c)) :
                          h # i /\ ~FieldOk(fields(c)[h], m, AskedCamel)
                /\ (call.op = "round_trip" /\ args.obj.vals[i] = JSON_MISSING
                      /\ \A h \in 1..Len(fields(c)) :
                            FieldOk(fields(c)[h], m, AskedCamel))
                      => /\ outcome.st = "ok"
                         /\ outcome.val.vals[i] = DeclaredDefault(fields(c)[i])

\* the mapping to_dict wrote for a ClassWithMissing whose optional_field held
\* JSON_MISSING lacks the key and is decoded to an instance with the default
C6_Witness ==
    /\ call.op = "round_trip" /\ outcome.st = "ok"
    /\ args.obj.cls = "ClassWithMissing"
    /\ args.obj.vals[2] = JSON_MISSING
    /\ AbsentWithDefault("ClassWithMissing", call.arg, 2, AskedCamel)
    /\ outcome.val.vals[2] = DeclaredDefault(fields("ClassWithMissing")[2])

----------------------------------------------------------------------------
(* C7 *)

HasOverride(f) == f.metadata.json_name # <<>>

RECURSIVE WritesOverride(_, _)
\* mapping m holds, for every field of instance x declared with a json_name
\* and holding a value, the key json_name, and so does the mapping of every
\* nested dataclass instance
WritesOverride(x, m) ==
    /\ m.k = "dict"
    /\ \A i \in 1..Len(x.vals) :
          LET f == fields(x.cls)[i]
          IN  /\ (HasOverride(f) /\ x.vals[i] # JSON_MISSING)
                    => DictHas(m, PyStr(f.metadata.json_name[1]))
              /\ (HasOverride(f) /\ x.vals[i].k = "instance"
                     /\ f.metadata.json_serializer = <<>>)
                    => WritesOverride(x.vals[i],
                                      DictGet(m, PyStr(f.metadata.json_name[1])))
              /\ (~HasOverride(f) /\ x.vals[i].k = "instance"
                     /\ f.metadata.json_serializer = <<>>)
                    => \E key \in {f.name, snake_to_camel(f.name)} :
                          /\ DictHas(m, PyStr(key))
                          /\ WritesOverride(x.vals[i], DictGet(m, PyStr(key)))

RECURSIVE ReadsOverride(_, _, _, _)
\* instance x decoded from mapping m took, for every field of dataclass c
\* declared with a json_name, the value under the key json_name (None for
\* null) or the default when m has no such key, and so did every nested
\* dataclass instance
ReadsOverride(c, m, x, camel) ==
    \A i \in 1..Len(fields(c)) :
        LET f == fields(c)[i]
            N == PyStr(f.metadata.json_name[1])
        IN  /\ HasOverride(f) =>
                 IF ~DictHas(m, N)
                 THEN ~Required(f) /\ x.vals[i] = DeclaredDefault(f)
                 ELSE IF DictGet(m, N) = None_ THEN x.vals[i] = None_
                 ELSE /\ x.vals[i] = _decode_field(f.type, DictGet(m, N), camel,
                                                   <<f>>).val
                      /\ (f.type.t = "dataclass"
                             /\ f.metadata.json_deserializer = <<>>)
                            => ReadsOverride(f.type.cls, DictGet(m, N),
                                             x.vals[i], camel)
            /\ (~HasOverride(f) /\ f.type.t = "dataclass"
                   /\ f.metadata.json_deserializer = <<>>
                   /\ x.vals[i].k = "instance")
                 => \E key \in {f.name, snake_to_camel(f.name)} :
                       /\ DictHas(m, PyStr(key))
                       /\ DictGet(m, PyStr(key)).k = "dict"
                       /\ ReadsOverride(f.type.cls, DictGet(m, PyStr(key)),
                                        x.vals[i], camel)

\* C7: for every field declared with json_field(json_name=N), to_dict
\* writes the key N and from_dict looks up the key N, whatever the flag of
\* the codec and the flag of the call, also for an N with underscores and
\* inside nested dataclasses.
C7_OverrideIsTheKey ==
    /\ (call.op = "to_dict" /\ args.obj.k = "instance" /\ outcome.st = "ok")
          => WritesOverride(args.obj, outcome.val)
    /\ call.op = "round_trip" => WritesOverride(args.obj, call.arg)
    /\ (call.op \in {"from_dict", "round_trip"} /\ MappingDecoded
           /\ outcome.st = "ok")
          => ReadsOverride(TargetCls.name, GivenData, outcome.val, AskedCamel)

\* with the naming flag on, to_dict wrote user_id for a NestedCustomClass and
\* username inside its nested ClassWithCustomFields, and from_dict read both
\* back from these keys
C7_Witness ==
    /\ call.op = "round_trip" /\ outcome.st = "ok" /\ AskedCamel
    /\ args.obj.cls = "NestedCustomClass"
    /\ DictHas(call.arg, PyStr("user_id"))
    /\ DictHas(DictGet(call.arg, PyStr("customFields")), PyStr("username"))
    /\ outcome.val.vals[1] = DictGet(call.arg, PyStr("user_id"))
    /\ outcome.val.vals[2].vals[1]
          = DictGet(DictGet(call.arg, PyStr("customFields")), PyStr("username"))

----------------------------------------------------------------------------
(* C8 *)

\* the reference transform: split on "_", keep the first segment, upper-case
\* only the first letter of each later segment, concatenate
RefCamel(s) ==
    LET words == Split(s, "_")
    IN  Join([i \in 1..Len(words) |->
                 IF i > 1 /\ Len(words[i]) > 0
                 THEN UpperChar(Char(words[i], 1)) \o SubSeq(words[i], 2, Len(words[i]))
                 ELSE words[i]])

\* C8: snake_to_camel(s) equals the reference transform for every
\* identifier s.
C8_SnakeToCamelIsReference ==
    call.op = "snake_to_camel" => outcome.val.s = RefCamel(args.obj.s)


----------------------------------------------------------------------------
(* C9 *)

\* the members of union typ whose decode of v succeeds
Succeeding(typ, v, camel) ==
    {j \in 1..Len(typ.args) : _decode_field(typ.args[j], v, camel, <<>>).st = "ok"}

\* the members of union typ that the walk tried on v
Tried(typ, v) ==
    {outcome.log[n].member :
        n \in {n \in 1..Len(outcome.log) :
                 outcome.log[n].union = typ /\ outcome.log[n].val = v}}

\* field i of the decoded dataclass has a union type and a value that is not
\* null, and every other field decodes
UnionFieldDecoded(i) ==
    /\ call.op = "from_dict" /\ MappingDecoded
    /\ i \in 1..Len(fields(TargetCls.name))
    /\ fields(TargetCls.name)[i].type.t = "Union"
    /\ fields(TargetCls.name)[i].metadata.json_deserializer = <<>>
    /\ DictHas(GivenData, PyStr(ResolvedKey(fields(TargetCls.name)[i], AskedCamel)))
    /\ DictGet(GivenData, PyStr(ResolvedKey(fields(TargetCls.name)[i], AskedCamel)))
          # None_
    /\ \A h \in 1..Len(fields(TargetCls.name)) :
          h # i => FieldOk(fields(TargetCls.name)[h], GivenData, AskedCamel)

\* C9: a value decoded against a union is given to the members in declared
\* order; the result is that of the first member whose decode succeeds and
\* no later member is tried; when no member succeeds the decode fails.
C9_UnionFirstSuccess ==
    (call.op = "from_dict" /\ MappingDecoded) =>
      \A i \in 1..Len(fields(TargetCls.name)) :
        UnionFieldDecoded(i) =>
            LET f == fields(TargetCls.name)[i]
                v == DictGet(GivenData, PyStr(ResolvedKey(f, AskedCamel)))
                S == Succeeding(f.type, v, AskedCamel)
            IN  IF S # {}
                THEN /\ outcome.st = "ok"
                     /\ outcome.val.vals[i]
                           = _decode_field(f.type.args[Min(S)], v, AskedCamel, <<>>).val
                     /\ Tried(f.type, v) = 1..Min(S)
                ELSE outcome.st = "raise"

----------------------------------------------------------------------------
(* C10 *)

\* from_dict decoded a str or an int given for the value of a UnionClass
\* (value: Union[str, int])
ScalarForUnion ==
    /\ call.op = "from_dict" /\ MappingDecoded
    /\ TargetCls.name = "UnionClass"
    /\ DictHas(GivenData, PyStr("value"))
    /\ DictGet(GivenData, PyStr("value")).k \in {"str", "int"}

\* the attempts of the walk that succeeded
Accepted == SelectSeq(outcome.log, LAMBDA a : a.st = "ok")

\* C10 as claimed: a str given for a Union[str, int] field is resolved by
\* the str member and an int by the int member, the member of the type of
\* the value.
C10_ScalarOwnTypeMember ==
    ScalarForUnion =>
        /\ outcome.st = "ok"
        /\ Len(Accepted) = 1
        /\ Accepted[1].union.args[Accepted[1].member].t
              = DictGet(GivenData, PyStr("value")).k

\* C10 amended: a str or an int given for a Union[str, int] field is
\* returned unchanged, and it is the first declared member, str, that
\* resolves both: a plain scalar member accepts every value that is not
\* null, so the declared order alone decides and the int member is never
\* tried.
C10_ScalarFirstMember ==
    ScalarForUnion =>
        /\ outcome.st = "ok"
        /\ outcome.val.vals[1] = DictGet(GivenData, PyStr("value"))
        /\ Len(outcome.log) = 1
        /\ outcome.log[1].member = 1 /\ outcome.log[1].st = "ok"
        /\ outcome.log[1].union.args[1] = TStr

\* 42 given for the value of a UnionClass is decoded to 42
C10_Witness ==
    /\ ScalarForUnion
    /\ DictGet(GivenData, PyStr("value")) = PyInt(42)
    /\ outcome.st = "ok" /\ outcome.val.vals[1] = PyInt(42)

----------------------------------------------------------------------------
(* C11 *)

\* from_dict decoded a mapping for dataclass c whose field i is given a
\* value that is not null, every other field being one that decodes
FieldGiven(c, i) ==
    /\ call.op = "from_dict" /\ MappingDecoded
    /\ TargetCls.name = c
    /\ DictHas(GivenData, PyStr(ResolvedKey(fields(c)[i], AskedCamel)))
    /\ DictGet(GivenData, PyStr(ResolvedKey(fields(c)[i], AskedCamel))) # None_
    /\ \A h \in 1..Len(fields(c)) :
          h # i => FieldOk(fields(c)[h], GivenData, AskedCamel)

\* the wire value given for field i of dataclass c
Given(c, i) == DictGet(GivenData, PyStr(ResolvedKey(fields(c)[i], AskedCamel)))

\* C11: decoding against Tuple[T1, ..., Tn] succeeds only for a wire
\* sequence of exactly n elements and gives the n-tuple of the decoded
\* elements; a wire sequence of fewer or more elements makes the decode
\* fail.  Stated for the pair: Tuple[str, int] of TupleClass.
C11_TupleArity ==
    FieldGiven("TupleClass", 1) =>
        LET typ == fields("TupleClass")[1].type
            w == Given("TupleClass", 1)
        IN  /\ outcome.st = "ok" =>
                 /\ w.k = "list" /\ Len(w.items) = Len(typ.args)
                 /\ outcome.val.vals[1].k = "tuple"
                 /\ Len(outcome.val.vals[1].items) = Len(typ.args)
                 /\ \A j \in 1..Len(typ.args) :
                       outcome.val.vals[1].items[j]
                          = _decode_field(typ.args[j], w.items[j], AskedCamel, <<>>).val
            /\ (w.k = "list" /\ Len(w.items) # Len(typ.args))
                  => (outcome.st = "raise" /\ outcome.exc = "CodecError")

----------------------------------------------------------------------------
(* C12 *)

\* C12: decoding against List[T] succeeds only for a wire sequence and
\* gives the list, of the same length, of the decoded elements; a string, a
\* mapping or another value that is no sequence makes the decode fail.
\* Stated for the items: List[str] of ClassWithList.
C12_ListNeedsSequence ==
    FieldGiven("ClassWithList", 2) =>
        LET typ == fields("ClassWithList")[2].type
            w == Given("ClassWithList", 2)
        IN  /\ outcome.st = "ok" =>
                 /\ w.k = "list"
                 /\ outcome.val.vals[2].k = "list"
                 /\ Len(outcome.val.vals[2].items) = Len(w.items)
                 /\ \A j \in 1..Len(w.items) :
                       outcome.val.vals[2].items[j]
                          = _decode_field(typ.args[1], w.items[j], AskedCamel, <<>>).val
            /\ w.k # "list" => (outcome.st = "raise" /\ outcome.exc = "CodecError")

----------------------------------------------------------------------------
(* C13 *)

PlainScalar(typ) == typ.t \in {"str", "int", "bool"}

\* a list or tuple given for field f holds a null at a place whose declared
\* type is a plain scalar
NullElement(f, w) ==
    /\ w.k = "list"
    /\ \/ /\ f.type.t = "List" /\ PlainScalar(f.type.args[1])
          /\ \E j \in 1..Len(w.items) : w.items[j] = None_
       \/ /\ f.type.t = "Tuple"
          /\ \E j \in 1..Len(w.items) :
                /\ j <= Len(f.type.args) /\ PlainScalar(f.type.args[j])
                /\ w.items[j] = None_

\* C13 as claimed: null paired with a plain scalar type makes the decode
\* fail, as the value of a field, as a list element and as a tuple element;
\* a value that is not null is returned unchanged.
C13_NullNeverScalar ==
    (call.op = "from_dict" /\ MappingDecoded) =>
        \A i \in 1..Len(fields(TargetCls.name)) :
            LET f == fields(TargetCls.name)[i]
                key == PyStr(ResolvedKey(f, AskedCamel))
            IN  (DictHas(GivenData, key) /\ f.metadata.json_deserializer = <<>>) =>
                  /\ (PlainScalar(f.type) /\ DictGet(GivenData, key) = None_)
                        => outcome.st = "raise"
                  /\ NullElement(f, DictGet(GivenData, key)) => outcome.st = "raise"
                  /\ (PlainScalar(f.type) /\ DictGet(GivenData, key) # None_
                         /\ outcome.st = "ok")
                        => outcome.val.vals[i] = DictGet(GivenData, key)

\* C13 amended: null paired with a plain scalar type makes the decode fail
\* where it is a list element or a tuple element; null given as the value
\* of a field is assigned to the field as None whatever the declared type;
\* a value that is not null given for a field of plain scalar type is
\* returned unchanged.
C13_NullElementFails ==
    (call.op = "from_dict" /\ MappingDecoded) =>
        \A i \in 1..Len(fields(TargetCls.name)) :
            LET f == fields(TargetCls.name)[i]
                key == PyStr(ResolvedKey(f, AskedCamel))
            IN  (DictHas(GivenData, key) /\ f.metadata.json_deserializer = <<>>) =>
                  /\ (DictGet(GivenData, key) = None_ /\ outcome.st = "ok")
                        => outcome.val.vals[i] = None_
                  /\ (DictGet(GivenData, key) = None_ /\ outcome.st = "raise")
                        => \E h \in 1..Len(fields(TargetCls.name)) :
                              h # i /\ ~FieldOk(fields(TargetCls.name)[h],
                                                GivenData, AskedCamel)
                  /\ NullElement(f, DictGet(GivenData, key))
                        => (outcome.st = "raise" /\ outcome.exc = "CodecError")
                  /\ (PlainScalar(f.type) /\ DictGet(GivenData, key) # None_
                         /\ outcome.st = "ok")
                        => outcome.val.vals[i] = DictGet(GivenData, key)

\* a list holding a null is given for the items: List[str] of ClassWithList
\* and the call fails on it
C13_Witness ==
    /\ FieldGiven("ClassWithList", 2)
    /\ Given("ClassWithList", 2) = PyList(<<None_>>)
    /\ outcome.st = "raise"
    /\ Contains(outcome.msg, "got: None")

----------------------------------------------------------------------------
(* C14 *)

\* mapping m holds null under the key of every field of instance x that has
\* a serializer and holds None
NoneWrittenAsNull(x, m) ==
    \A i \in 1..Len(x.vals) :
        (fields(x.cls)[i].metadata.json_serializer # <<>> /\ x.vals[i] = None_)
           => /\ m.k = "dict"
              /\ DictHas(m, PyStr(ResolvedKey(fields(x.cls)[i], AskedCamel)))
              /\ DictGet(m, PyStr(ResolvedKey(fields(x.cls)[i], AskedCamel))) = None_

\* C14: a serializer or deserializer declared with json_field is never
\* called with None: to_dict writes null for a field that holds None, and
\* from_dict sets a field whose key holds null to None; neither call fails
\* on that field.
C14_NoneBypassesCustom ==
    /\ (call.op = "to_dict" /\ args.obj.k = "instance")
          => (outcome.st = "ok" /\ NoneWrittenAsNull(args.obj, outcome.val))
    /\ call.op = "round_trip" => NoneWrittenAsNull(args.obj, call.arg)
    /\ (call.op \in {"from_dict", "round_trip"} /\ MappingDecoded) =>
          \A i \in 1..Len(fields(TargetCls.name)) :
              LET f == fields(TargetCls.name)[i]
                  key == PyStr(ResolvedKey(f, AskedCamel))
              IN  (/\ f.metadata.json_deserializer # <<>>
                   /\ DictHas(GivenData, key) /\ DictGet(GivenData, key) = None_)
                  => /\ outcome.st = "ok" => outcome.val.vals[i] = None_
                     /\ outcome.st = "raise" =>
                           \E h \in 1..Len(fields(TargetCls.name)) :
                               h # i /\ ~FieldOk(fields(TargetCls.name)[h],
                                                 GivenData, AskedCamel)

\* a ClassWithSerializers whose date holds None is written with a null date
\* and read back with the date None
C14_Witness ==
    /\ call.op = "round_trip" /\ outcome.st = "ok"
    /\ args.obj.cls = "ClassWithSerializers"
    /\ args.obj.vals[2] = None_
    /\ DictGet(call.arg, PyStr("date")) = None_
    /\ outcome.val.vals[2] = None_

----------------------------------------------------------------------------
(* C15 *)

\* call n was given a mapping without the key of field i, which has a
\* default_factory
FactoryAbsent(n, i) ==
    /\ n \in 1..Len(made) /\ i \in 1..Len(fields(HeapClass))
    /\ fields(HeapClass)[i].default.kind = "factory"
    /\ ~DictHas(made[n].data, PyStr(ResolvedKey(fields(HeapClass)[i], AskedCamel)))

Places == (1..Len(made)) \X (1..Len(fields(HeapClass)))

\* the call invoked the factory once for the field, the value it made held
\* the declared default when the call returned, and it is an object that no
\* other field of a decoded instance and no mapping of a caller holds
FreshAtReturn ==
    \A p \in Places :
        FactoryAbsent(p[1], p[2]) =>
            LET v == made[p[1]].inst.vals[p[2]]
            IN  /\ Cardinality({j \in 1..Len(made[p[1]].called) :
                                   made[p[1]].called[j] = p[2]}) = 1
                /\ v.k = "ref"
                /\ made[p[1]].fresh[p[2]] = DeclaredDefault(fields(HeapClass)[p[2]])
                /\ \A q \in Places \ {p} : made[q[1]].inst.vals[q[2]] # v
                /\ \A m \in 1..Len(made) :
                      \A e \in 1..Len(made[m].data.entries) :
                          made[m].data.entries[e][2] # v

\* a change made through another field, or another instance, leaves the
\* value the factory made as it was
MutationStaysLocal ==
    \A p \in Places, q \in Places :
        (FactoryAbsent(p[1], p[2]) /\ q # p /\ MutateMade(q[1], q[2]))
            => heap'[made[p[1]].inst.vals[p[2]].at] = heap[made[p[1]].inst.vals[p[2]].at]

\* C15: in every sequence of from_dict calls given mappings without the key
\* of a field with a default_factory, each call invokes the factory once for
\* the field and the instances hold distinct values: changing the value of
\* one instance changes neither the field of another instance nor the value
\* a later call makes.
C15_FactoryFresh == []FreshAtReturn /\ [][MutationStaysLocal]_vars

\* two calls were given a mapping without the key items; x was added to the
\* items of the first instance and the items of the second are empty
C15_Witness ==
    /\ Len(made) = 2
    /\ FactoryAbsent(1, 1) /\ FactoryAbsent(2, 1)
    /\ heap[made[1].inst.vals[1].at].items = <<Mark>>
    /\ heap[made[2].inst.vals[1].at].items = <<>>

----------------------------------------------------------------------------
(* C16 *)

\* C16: the naming-convention flag in effect for a to_dict or from_dict call
\* is the flag the call passes, whatever the default of the codec instance:
\* the call returns what a codec whose default is the passed flag returns, so
\* on JSONCodec(to_camel_case=True) a call passing False reads and writes the
\* identifiers unchanged.
C16_PerCallFlagGoverns ==
    /\ call.op = "to_dict"
          => outcome = to_dict(JSONCodec(args.flag), args.obj, args.flag)
    /\ call.op = "from_dict"
          => outcome = from_dict(JSONCodec(args.flag), args.cls, args.data, args.flag)

----------------------------------------------------------------------------
(* C17 *)

\* C17: no wire tree returned by to_dict holds JSON_MISSING at any depth,
\* whatever the instance: also one that holds JSON_MISSING inside a list, a
\* tuple or a dict value, or whose custom serializer returns JSON_MISSING.
C17_NoMissingInWireTree ==
    (call.op = "to_dict" /\ outcome.st = "ok") => ~HoldsMissing(outcome.val)

----------------------------------------------------------------------------
(* C18 *)

\* every call that has returned, returned what it returns when it runs alone
SameAsAlone ==
    \A t \in Threads :
        threads[t].pc = "done" => threads[t].outcome = threads[t].alone

\* a step leaves the codec, the field descriptors and the arguments of the
\* calls as they were
NoSharedWrite == codec' = codec /\ shared' = shared

\* C18: encode and decode calls write no shared state - not the codec's
\* to_camel_case flag (of json_codec or of another instance), not the field
\* descriptors or metadata of the dataclass, not the argument given - so
\* under every interleaving of concurrent calls on the same dataclass each
\* call returns what it returns when it runs alone.
C18_NoSharedState == []SameAsAlone /\ [][NoSharedWrite]_vars

\* two calls that asked for different conventions ran at the same time on
\* json_codec, an encode and a decode, and both returned a value
C18_Witness ==
    /\ codec = json_codec
    /\ \A t \in Threads : threads[t].pc = "done" /\ threads[t].outcome.st = "ok"
    /\ \E t \in Threads : threads[t].met
    /\ shared.given["t1"].dir = "encode" /\ shared.given["t1"].flag
    /\ shared.given["t2"].dir = "decode" /\ ~shared.given["t2"].flag

----------------------------------------------------------------------------
(* C19 *)

\* C19: in union decoding a member attempt that fails, with whatever kind of
\* exception, is followed by the attempt of the next member: a wire integer
\* given for a union that has the member int - Union[SimpleClass, int],
\* Union[List[int], int], Union[date, int] - is decoded to that integer.
C19_AnyFailureMovesOn ==
    (call.op = "from_dict" /\ MappingDecoded) =>
      \A i \in 1..Len(fields(TargetCls.name)) :
        (/\ UnionFieldDecoded(i)
         /\ \E j \in 1..Len(fields(TargetCls.name)[i].type.args) :
               fields(TargetCls.name)[i].type.args[j] = TInt
         /\ DictGet(GivenData,
                    PyStr(ResolvedKey(fields(TargetCls.name)[i], AskedCamel))).k = "int")
          => /\ outcome.st = "ok"
             /\ outcome.val.vals[i]
                   = DictGet(GivenData,
                             PyStr(ResolvedKey(fields(TargetCls.name)[i], AskedCamel)))

----------------------------------------------------------------------------
(* C20 *)

\* mapping m has a key for every required field of dataclass c and no key
\* that is not the key of a field of c
StructurallyComplete(c, m, camel) ==
    /\ m.k = "dict"
    /\ \A n \in 1..Len(m.entries) :
          \E h \in 1..Len(fields(c)) :
              m.entries[n][1] = PyStr(ResolvedKey(fields(c)[h], camel))
    /\ \A h \in 1..Len(fields(c)) :
          Required(fields(c)[h])
              => DictHas(m, PyStr(ResolvedKey(fields(c)[h], camel)))

\* the dataclass members of union typ that mapping m matches
Matching(typ, m, camel) ==
    {j \in 1..Len(typ.args) :
        /\ typ.args[j].t = "dataclass"
        /\ StructurallyComplete(typ.args[j].cls, m, camel)
        /\ _decode_field(typ.args[j], m, camel, <<>>).st = "ok"}

\* C20: a dataclass member of a union matches only a structurally complete
\* mapping: a mapping with a key that is no field of the member, or without
\* a required field of it, goes on to the next member, so the value decoded
\* is an instance of the first member that the mapping is complete for
\* (with Union[A, B], B having the fields of A and more, a mapping written
\* from a B is decoded as a B).
C20_CompleteMatchOnly ==
    (call.op = "from_dict" /\ MappingDecoded) =>
      \A i \in 1..Len(fields(TargetCls.name)) :
        (/\ UnionFieldDecoded(i)
         /\ \A j \in 1..Len(fields(TargetCls.name)[i].type.args) :
               fields(TargetCls.name)[i].type.args[j].t = "dataclass")
          => LET f == fields(TargetCls.name)[i]
                 v == DictGet(GivenData, PyStr(ResolvedKey(f, AskedCamel)))
                 S == Matching(f.type, v, AskedCamel)
             IN  S # {} =>
                   /\ outcome.st = "ok"
                   /\ outcome.val.vals[i].k = "instance"
                   /\ outcome.val.vals[i].cls = f.type.args[Min(S)].cls

----------------------------------------------------------------------------
(* C21 *)

\* mapping m carries field i of dataclass c under the identifier of the
\* field, which is not its key in the camelCase convention, and not under
\* that key
RawOnly(c, m, i) ==
    /\ m.k = "dict"
    /\ fields(c)[i].name # ResolvedKey(fields(c)[i], TRUE)
    /\ DictHas(m, PyStr(fields(c)[i].name))
    /\ ~DictHas(m, PyStr(ResolvedKey(fields(c)[i], TRUE)))

\* what the claim says of a call whose result for dataclass c and mapping m
\* is got, when every field of c before field i decodes: the field is absent
AsAbsent(c, m, i, failed, msg, got) ==
    IF Required(fields(c)[i])
    THEN /\ failed
         /\ (\A h \in 1..(i - 1) : FieldOk(fields(c)[h], m, TRUE))
               => Contains(msg, MissingFieldText(ResolvedKey(fields(c)[i], TRUE)))
    ELSE ~failed => got.vals[i] = DeclaredDefault(fields(c)[i])

\* C21: with to_snake_case in effect from_dict finds a field only under its
\* camelCase key (or its json_name override), at the top level and in the
\* mapping given for a dataclass-typed field: a mapping that carries the
\* field under its underscore identifier only is decoded as a mapping
\* without the field - the field takes its default, or the decode fails and
\* names the camelCase key as the missing field.
C21_SnakeCaseKeysOnly ==
    (call.op = "from_dict" /\ MappingDecoded /\ AskedCamel) =>
        LET c == TargetCls.name
            m == GivenData
        IN  \A i \in 1..Len(fields(c)) :
              /\ RawOnly(c, m, i) =>
                    /\ outcome.st = "raise" => outcome.exc = "CodecError"
                    /\ AsAbsent(c, m, i, outcome.st = "raise", outcome.msg, outcome.val)
              /\ LET f == fields(c)[i]
                     key == PyStr(ResolvedKey(f, TRUE))
                 IN  (/\ f.type.t = "dataclass"
                      /\ f.metadata.json_deserializer = <<>>
                      /\ DictHas(m, key) /\ DictGet(m, key).k = "dict"
                      /\ \A h \in 1..(i - 1) : FieldOk(fields(c)[h], m, TRUE))
                       => \A g \in 1..Len(fields(f.type.cls)) :
                            RawOnly(f.type.cls, DictGet(m, key), g) =>
                              AsAbsent(f.type.cls, DictGet(m, key), g,
                                       outcome.st = "raise", outcome.msg,
                                       IF outcome.st = "ok" THEN outcome.val.vals[i]
                                       ELSE None_)

\* from_dict(NestedSnakeClass, {"userInfo": {"user_name": ..., "user_age":
\* ...}}, to_snake_case=True) failed for the missing field 'userName'
C21_Witness ==
    /\ call.op = "from_dict" /\ MappingDecoded /\ args.flag
    /\ TargetCls.name = "NestedSnakeClass"
    /\ DictHas(GivenData, PyStr("userInfo"))
    /\ RawOnly("SnakeCaseClass", DictGet(GivenData, PyStr("userInfo")), 1)
    /\ RawOnly("SnakeCaseClass", DictGet(GivenData, PyStr("userInfo")), 2)
    /\ outcome.exc = "CodecError"
    /\ outcome.msg = "Error decoding data: missing field 'userName'"

----------------------------------------------------------------------------
(* C22 *)

\* C22: no list or dict is shared between the input and the output of a
\* call; for from_dict: no field of the instance a call returned holds a
\* list or dict object that the mapping given to that call holds, so that
\* changing the one never changes the other.
C22_NoSharedContainer ==
    \A n \in 1..Len(made) :
        \A i \in 1..Len(made[n].inst.vals) :
            made[n].inst.vals[i].k = "ref" =>
                \A e \in 1..Len(made[n].data.entries) :
                    made[n].data.entries[e][2] # made[n].inst.vals[i]

----------------------------------------------------------------------------
(* C23 *)

\* mapping m has one key for each field of instance x that holds no
\* JSON_MISSING, and under the key of a field that holds a dict a mapping
\* with as many keys as the dict
EntriesKept(x, m, camel) ==
    /\ m.k = "dict"
    /\ Len(m.entries) = Cardinality({i \in 1..Len(x.vals) : x.vals[i] # JSON_MISSING})
    /\ \A i \in 1..Len(x.vals) :
          (x.vals[i].k = "dict" /\ fields(x.cls)[i].metadata.json_serializer = <<>>)
             => LET key == PyStr(ResolvedKey(fields(x.cls)[i], camel))
                IN  /\ DictHas(m, key)
                    /\ DictGet(m, key).k = "dict"
                    /\ Len(DictGet(m, key).entries) = Len(x.vals[i].entries)

\* C23: encoding loses no entry, whatever the convention and the overrides:
\* the mapping to_dict returns for an instance has as many keys as the
\* instance has fields that hold no JSON_MISSING, and a dict held by a field
\* is written as a mapping with as many keys as the dict.
C23_NoEntryLost ==
    (call.op = "to_dict" /\ args.obj.k = "instance" /\ outcome.st = "ok")
        => EntriesKept(args.obj, outcome.val, AskedCamel)

=============================================================================
